---- MODULE Spec2Model ----
(***************************************************************************)
(* plex-watchlist-sync: the scan cycle (run), the GUID index and the tier  *)
(* resolvers (checkIfInPlex), in the GUID-index implementation             *)
(* (plexChecker with buildGuidIndex, run with sendAddedMessage) and in the *)
(* legacy implementation (scan cache, checkTypeInPlex).                    *)
(*                                                                         *)
(* JavaScript strings are sequences of one-character strings, so that      *)
(* startsWith, replace, includes and normalize are computed, not assumed.  *)
(* null / undefined / '' (all falsy, and only ever tested for truthiness)  *)
(* are the empty sequence for an id or a title, NoYear for a year and      *)
(* NoProvider for a provider.                                              *)
(***************************************************************************)
EXTENDS Integers, Sequences, FiniteSets, TLC

\* ------------------------------------------------------------------------
\* Strings
\* ------------------------------------------------------------------------

\* the elements of an array
Range(q) == {q[i] : i \in DOMAIN q}

\* s.startsWith(p)
StartsWith(s, p) ==
  /\ Len(p) <= Len(s)
  /\ SubSeq(s, 1, Len(p)) = p

\* s.endsWith(p)
EndsWith(s, p) ==
  /\ Len(p) <= Len(s)
  /\ SubSeq(s, Len(s) - Len(p) + 1, Len(s)) = p

\* the 1-based position of the first occurrence of p in s, 0 when there is none
IndexOf(s, p) ==
  LET hits == {i \in 1..(Len(s) - Len(p) + 1) : SubSeq(s, i, i + Len(p) - 1) = p}
  IN IF hits = {} THEN 0 ELSE CHOOSE i \in hits : \A j \in hits : i <= j

\* s.includes(p)
Includes(s, p) == Len(p) = 0 \/ IndexOf(s, p) > 0

\* s.replace(p, r) with a string pattern: the first occurrence only
ReplaceFirst(s, p, r) ==
  LET i == IndexOf(s, p)
  IN IF Len(p) = 0 THEN r \o s
     ELSE IF i = 0 THEN s
     ELSE SubSeq(s, 1, i - 1) \o r \o SubSeq(s, i + Len(p), Len(s))

\* toLowerCase() followed by NFD decomposition with the combining marks
\* removed, one character at a time ("E'" stands for the accented letter)
LowerChar(c) ==
  CASE c = "A" -> "a"
    [] c = "C" -> "c"
    [] c = "U" -> "u"
    [] c = "I" -> "i"
    [] c = "T" -> "t"
    [] c = "E'" -> "e"
    [] c = "e'" -> "e"
    [] OTHER -> c

LowerAscii(s) == [i \in 1..Len(s) |-> LowerChar(s[i])]

IsSeparator(c) == c \in {":", "-", "_"}
IsSpace(c) == c = " "
IsAlnum(c) == c \in {"a", "c", "e", "h", "i", "l", "n", "o", "p", "r", "s", "t", "u",
                     "0", "1", "2", "3", "4", "5", "6", "7", "8", "9"}

RECURSIVE CollapseSpaces(_)
CollapseSpaces(s) ==
  IF Len(s) < 2 THEN s
  ELSE IF IsSpace(s[1]) /\ IsSpace(s[2]) THEN CollapseSpaces(Tail(s))
  ELSE <<s[1]>> \o CollapseSpaces(Tail(s))

RECURSIVE TrimLeft(_)
TrimLeft(s) == IF Len(s) > 0 /\ IsSpace(s[1]) THEN TrimLeft(Tail(s)) ELSE s

RECURSIVE TrimRight(_)
TrimRight(s) ==
  IF Len(s) > 0 /\ IsSpace(s[Len(s)]) THEN TrimRight(SubSeq(s, 1, Len(s) - 1)) ELSE s

Trim(s) == TrimRight(TrimLeft(s))

\* normalize of the GUID-index implementation
normalize(str) ==
  LET low == LowerAscii(str)
      sep == [i \in 1..Len(low) |-> IF IsSeparator(low[i]) THEN " " ELSE low[i]]
  IN Trim(CollapseSpaces(sep))

\* normalize of the legacy implementation: everything but [a-z0-9] removed
normalizeLegacy(str) == SelectSeq(LowerAscii(str), IsAlnum)

\* s.split(' ')[0]
FirstWord(s) ==
  LET i == IndexOf(s, <<" ">>)
  IN IF i = 0 THEN s ELSE SubSeq(s, 1, i - 1)

\* ------------------------------------------------------------------------
\* Literals
\* ------------------------------------------------------------------------

NoProvider == "none"
NoYear == 0
NoString == <<>>
Providers == {"imdb", "tmdb", "tvdb"}

IMDB_SCHEME == <<"i", "m", "d", "b", ":", "/", "/">>
TMDB_SCHEME == <<"t", "m", "d", "b", ":", "/", "/">>
TVDB_SCHEME == <<"t", "v", "d", "b", ":", "/", "/">>
THETVDB_SCHEME == <<"t", "h", "e", "t", "v", "d", "b", ":", "/", "/">>
PLEX_SCHEME == <<"p", "l", "e", "x", ":", "/", "/">>
TT == <<"t", "t">>

\* `${provider}` as characters
ProviderChars(p) ==
  CASE p = "imdb" -> <<"i", "m", "d", "b">>
    [] p = "tmdb" -> <<"t", "m", "d", "b">>
    [] p = "tvdb" -> <<"t", "v", "d", "b">>
    [] OTHER -> <<>>

\* external ids as the feeds and the library write them
ID_tt1 == <<"t", "t", "1">>
ID_tt2 == <<"t", "t", "2">>
ID_7 == <<"7">>
ID_8 == <<"8">>
ID_9 == <<"9">>

\* titles
T_Up == <<"U", "p">>
T_up == <<"u", "p">>
T_CloseUp == <<"C", "l", "o", "s", "e", "-", "U", "p">>
T_Close_up == <<"C", "l", "o", "s", "e", " ", "u", "p">>
T_UpInTheAir == <<"U", "p", " ", "i", "n", " ", "t", "h", "e", " ", "A", "i", "r">>
T_La_haut == <<"L", "a", "-", "h", "a", "u", "t">>

\* ------------------------------------------------------------------------
\* The Plex server: sections and their items (the environment of the code)
\* ------------------------------------------------------------------------

\* json.MediaContainer.Directory of /library/sections
ServerSections ==
  << [key |-> "1", type |-> "movie", title |-> "Films"],
     [key |-> "2", type |-> "show", title |-> "Series"],
     [key |-> "3", type |-> "movie", title |-> "Kids"],
     [key |-> "4", type |-> "artist", title |-> "Music"] >>

SectionKeys == {"1", "2", "3", "4"}

\* library items: title, year, ratingKey, the Guid array of includeGuids=1 and
\* the agent's own guid
ItemUp == [title |-> T_Up, year |-> 2009, ratingKey |-> 11,
           Guid |-> <<IMDB_SCHEME \o ID_tt1, TMDB_SCHEME \o ID_7>>,
    guid |-> PLEX_SCHEME \o <<"x">>]
ItemCloseUpMovie == [title |-> T_Close_up, year |-> 2010, ratingKey |-> 12,
                     Guid |-> <<>>,
    guid |-> PLEX_SCHEME \o <<"x">>]
ItemAir == [title |-> T_UpInTheAir, year |-> 2011, ratingKey |-> 13,
            Guid |-> <<PLEX_SCHEME \o ID_9, IMDB_SCHEME \o ID_tt2>>,
    guid |-> PLEX_SCHEME \o <<"x">>]
ItemUpKids == [title |-> T_La_haut, year |-> 2009, ratingKey |-> 14,
               Guid |-> <<IMDB_SCHEME \o ID_tt1>>,
    guid |-> PLEX_SCHEME \o <<"x">>]
ItemCloseUpShow == [title |-> T_CloseUp, year |-> 2010, ratingKey |-> 21,
                    Guid |-> <<TVDB_SCHEME \o ID_7>>,
    guid |-> PLEX_SCHEME \o <<"x">>]
ItemUpShow == [title |-> T_Up, year |-> 2011, ratingKey |-> 22,
               Guid |-> <<THETVDB_SCHEME \o ID_8, TMDB_SCHEME \o ID_9>>,
    guid |-> PLEX_SCHEME \o <<"x">>]

\* the X-Plex-Container-Size of buildGuidIndex (200 in the code), scaled down
\* with the libraries so that a section spans several pages
PageSize == 2

\* what the sections may hold, in server order
MovieLists == { <<>>, <<ItemAir, ItemUp>>, <<ItemUp, ItemCloseUpMovie, ItemAir>> }
ShowLists == { <<>>, <<ItemUpShow>>, <<ItemCloseUpShow, ItemUpShow>> }
KidsLists == { <<>>, <<ItemUpKids>> }

MakeLibrary(m, s, kd) ==
  [k \in SectionKeys |->
     CASE k = "1" -> m
       [] k = "2" -> s
       [] k = "3" -> kd
       [] OTHER -> <<>>]

\* the libraries a server may hold: section key -> its items
Libraries ==
  { lib \in { MakeLibrary(m, s, kd) : m \in MovieLists, s \in ShowLists, kd \in KidsLists } :
      lib["3"] # <<>> => Len(lib["1"]) = 3 }

\* config.json: excludeLibraries and whether tautulliUrl / tautulliApiKey are set
Configs ==
  { [excludeLibraries |-> {}, tautulli |-> FALSE],
    [excludeLibraries |-> {}, tautulli |-> TRUE],
    [excludeLibraries |-> {"Kids"}, tautulli |-> TRUE] }

\* ------------------------------------------------------------------------
\* State
\* ------------------------------------------------------------------------

VARIABLES
  impl,            \* which implementation runs: "guid" or "legacy"
  config,          \* the loaded config.json
  plex,            \* the server's library: section key -> items
  guidIndex,       \* plexChecker: the GUID index
  sectionsCache,   \* plexChecker: the cached section list
  scanCache,       \* legacy plexChecker: section/year key -> enumerated items
  lastBuild,       \* the last direct buildGuidIndex call: requests, failures
  lastCheck,       \* the last direct checkIfInPlex call: arguments, result, tiers
  isScanning,      \* index.js: the cycle flag
  pc,              \* where the admitted run() stands
  now,             \* Date.now() of the cycle, counted in cycles
  entries,         \* data.entries
  allItems,        \* the cycle's watchlist items
  fetched,         \* the cycle's feeds: what each holds and which failed to load
  pos,             \* the number of items the loop has processed
  addedThisScan,   \* the entries (by object identity) found new this cycle
  becameAdded,     \* the entries created added or turned pending -> added this cycle
  lastItem,        \* the last item processed: entry selected or created, found
  cycleClean,      \* the cycle so far ran as it does when no remote request fails
  channel,         \* what the cycle handed to the Discord channel
  stateFile,       \* watchlist.json as last written
  dropped,         \* the run() calls dropped so far
  ret,             \* what the last run() call returned
  batch            \* the checkBatch call: its loop, promises and results

checkerVars == <<guidIndex, sectionsCache, scanCache, lastBuild, lastCheck>>
envVars == <<impl, config, plex>>
cycleVars == <<isScanning, pc, now, entries, allItems, fetched, pos, addedThisScan,
               becameAdded, lastItem, cycleClean, channel, stateFile, dropped, ret>>
vars == <<impl, config, plex, guidIndex, sectionsCache, scanCache, lastBuild,
          lastCheck, isScanning, pc, now, entries, allItems, fetched, pos, addedThisScan,
          becameAdded, lastItem, cycleClean, channel, stateFile, dropped, ret, batch>>

\* ------------------------------------------------------------------------
\* The GUID index
\* ------------------------------------------------------------------------

\* new Map()
EmptyMap == [k \in {} |-> 0]

\* map.set(k, v)
MapSet(m, k, v) == [x \in (DOMAIN m) \cup {k} |-> IF x = k THEN v ELSE m[x]]

\* map.get(k): undefined is NoEntry
NoEntry == [title |-> NoString, year |-> NoYear, ratingKey |-> 0,
            type |-> "none", sectionId |-> "none"]
MapGet(m, k) == IF k \in DOMAIN m THEN m[k] ELSE NoEntry

EmptyIndex == [imdb |-> EmptyMap, tmdb |-> EmptyMap, tvdb |-> EmptyMap,
               loaded |-> FALSE, itemCount |-> 0]

NoCache == [set |-> FALSE, val |-> <<>>]

\* getLibrarySections caching the empty list of a failed request
getLibrarySectionsCachesFailure(cache, cfg, fails) ==
  IF cache.set THEN [sections |-> cache.val, cache |-> cache, requests |-> 0]
  ELSE IF fails THEN [sections |-> <<>>, cache |-> [set |-> TRUE, val |-> <<>>], requests |-> 1]
  ELSE LET typed == SelectSeq(ServerSections, LAMBDA s : s.type \in {"movie", "show"})
           kept == SelectSeq(typed, LAMBDA s : s.title \notin cfg.excludeLibraries)
           secs == [i \in 1..Len(kept) |->
                      [id |-> kept[i].key, type |-> kept[i].type, title |-> kept[i].title]]
       IN [sections |-> secs, cache |-> [set |-> TRUE, val |-> secs], requests |-> 1]

\* getLibrarySections: the cached list, or the server's movie and show
\* sections that are not excluded; a failed request yields [] and caches nothing
getLibrarySections(cache, cfg, fails) ==
  IF cache.set THEN [sections |-> cache.val, cache |-> cache, requests |-> 0]
  ELSE IF fails THEN [sections |-> <<>>, cache |-> cache, requests |-> 1]
  ELSE LET typed == SelectSeq(ServerSections, LAMBDA s : s.type \in {"movie", "show"})
           kept == SelectSeq(typed, LAMBDA s : s.title \notin cfg.excludeLibraries)
           secs == [i \in 1..Len(kept) |->
                      [id |-> kept[i].key, type |-> kept[i].type, title |-> kept[i].title]]
       IN [sections |-> secs, cache |-> [set |-> TRUE, val |-> secs], requests |-> 1]

\* the server's answer to /library/sections/<id>/all with Container-Start and
\* Container-Size
ServerPage(lib, sectionId, start, size) ==
  LET all == lib[sectionId]
      last == IF start + size < Len(all) THEN start + size ELSE Len(all)
  IN SubSeq(all, start + 1, last)

\* the body of `for (const g of guids)`: one identifier into its table
IndexGuid(gi, g, entry) ==
  IF StartsWith(g, IMDB_SCHEME)
    THEN [gi EXCEPT !.imdb = MapSet(@, ReplaceFirst(g, IMDB_SCHEME, <<>>), entry)]
  ELSE IF StartsWith(g, TMDB_SCHEME)
    THEN [gi EXCEPT !.tmdb = MapSet(@, ReplaceFirst(g, TMDB_SCHEME, <<>>), entry)]
  ELSE IF StartsWith(g, TVDB_SCHEME) \/ StartsWith(g, THETVDB_SCHEME)
    THEN LET tvdbId == ReplaceFirst(ReplaceFirst(g, TVDB_SCHEME, <<>>),
                                    THETVDB_SCHEME, <<>>)
         IN [gi EXCEPT !.tvdb = MapSet(@, tvdbId, entry)]
  ELSE gi

RECURSIVE IndexGuids(_, _, _)
IndexGuids(gi, guids, entry) ==
  IF guids = <<>> THEN gi
  ELSE IndexGuids(IndexGuid(gi, Head(guids), entry), Tail(guids), entry)

\* the body of `for (const item of items)`
IndexItem(gi, item, section) ==
  LET entry == [title |-> item.title, year |-> item.year,
                ratingKey |-> item.ratingKey, type |-> section.type,
                sectionId |-> section.id]
      withGuids == IndexGuids(gi, item.Guid, entry)
  IN [withGuids EXCEPT !.itemCount = @ + 1]

RECURSIVE IndexItems(_, _, _)
IndexItems(gi, items, section) ==
  IF items = <<>> THEN gi
  ELSE IndexItems(IndexItem(gi, Head(items), section), Tail(items), section)

\* the `while (hasMore)` loop with a failed page request discarding what the
\* call has indexed so far
RECURSIVE IndexSectionForgets(_, _, _, _, _)
IndexSectionForgets(acc, lib, section, start, failPages) ==
  LET asked == [acc EXCEPT !.pages = Append(@, <<section.id, start>>)]
  IN IF <<section.id, start>> \in failPages
       THEN [asked EXCEPT !.failed = TRUE, !.gi = EmptyIndex]
     ELSE LET items == ServerPage(lib, section.id, start, PageSize)
              done == [asked EXCEPT !.gi = IndexItems(@, items, section)]
          IN IF Len(items) < PageSize THEN done
             ELSE IndexSectionForgets(done, lib, section, start + PageSize, failPages)

\* the `while (hasMore)` loop of one section; failPages are the page requests
\* (section id, start) that answer with a non-success status or throw
RECURSIVE IndexSection(_, _, _, _, _)
IndexSection(acc, lib, section, start, failPages) ==
  LET asked == [acc EXCEPT !.pages = Append(@, <<section.id, start>>)]
  IN IF <<section.id, start>> \in failPages
       THEN [asked EXCEPT !.failed = TRUE]
     ELSE LET items == ServerPage(lib, section.id, start, PageSize)
              done == [asked EXCEPT !.gi = IndexItems(@, items, section)]
          IN IF Len(items) < PageSize THEN done
             ELSE IndexSection(done, lib, section, start + PageSize, failPages)

RECURSIVE IndexSections(_, _, _, _)
IndexSections(acc, lib, sections, failPages) ==
  IF sections = <<>> THEN acc
  ELSE IndexSections(IndexSection(acc, lib, Head(sections), 0, failPages),
                     lib, Tail(sections), failPages)

\* buildGuidIndex without the `if (guidIndex.loaded) return guidIndex` guard
buildGuidIndexAgain(gi, cache, cfg, lib, net) ==
  LET secs == getLibrarySections(cache, cfg, net.sectionsFail)
      acc0 == [gi |-> gi, pages |-> <<>>, failed |-> (secs.requests = 1 /\ net.sectionsFail)]
      acc == IndexSections(acc0, lib, secs.sections, net.failPages)
  IN [gi |-> [acc.gi EXCEPT !.loaded = TRUE], cache |-> secs.cache,
      pages |-> acc.pages, sectionRequests |-> secs.requests,
      failed |-> acc.failed, built |-> TRUE]

\* buildGuidIndex: the index, the section cache and the requests made
buildGuidIndex(gi, cache, cfg, lib, net) ==
  IF gi.loaded
    THEN [gi |-> gi, cache |-> cache, pages |-> <<>>, sectionRequests |-> 0,
          failed |-> FALSE, built |-> FALSE]
  ELSE LET secs == getLibrarySections(cache, cfg, net.sectionsFail)
           acc0 == [gi |-> gi, pages |-> <<>>, failed |-> (secs.requests = 1 /\ net.sectionsFail)]
           acc == IndexSections(acc0, lib, secs.sections, net.failPages)
       IN [gi |-> [acc.gi EXCEPT !.loaded = TRUE], cache |-> secs.cache,
           pages |-> acc.pages, sectionRequests |-> secs.requests,
           failed |-> acc.failed, built |-> TRUE]

\* clearScanCache of the GUID-index implementation
clearScanCacheGuid == [gi |-> EmptyIndex, cache |-> NoCache]

\* lookupByGuid with the tmdb and tvdb branches lost
lookupByGuidImdbOnly(gi, provider, id) ==
  IF id = NoString \/ ~gi.loaded THEN NoEntry
  ELSE IF provider = "imdb" \/ StartsWith(id, TT) THEN MapGet(gi.imdb, id)
  ELSE NoEntry

\* lookupByGuid
lookupByGuid(gi, provider, id) ==
  IF id = NoString \/ ~gi.loaded THEN NoEntry
  ELSE LET first ==
             IF provider = "imdb" \/ StartsWith(id, TT) THEN MapGet(gi.imdb, id)
             ELSE IF provider = "tmdb" THEN MapGet(gi.tmdb, id)
             ELSE IF provider = "tvdb" THEN MapGet(gi.tvdb, id)
             ELSE NoEntry
       IN IF first = NoEntry /\ StartsWith(id, TT) THEN MapGet(gi.imdb, id) ELSE first

\* ------------------------------------------------------------------------
\* Tier resolvers of the GUID-index implementation
\* ------------------------------------------------------------------------

\* a tier's `return null`, and checkIfInPlex's not-found result
NotFound == [found |-> FALSE, plexTitle |-> NoString, detectedType |-> "none"]

OtherType(type) == IF type = "movie" THEN "show" ELSE "movie"

Abs(n) == IF n < 0 THEN -n ELSE n

\* Tautulli's get_library_media_info for one section and one search string:
\* the rows of the section whose title contains the string, case-insensitively
\* (Tautulli mirrors the Plex library; rating_key is the Plex ratingKey)
TautulliRows(lib, sectionId, search) ==
  LET hits == SelectSeq(lib[sectionId],
                        LAMBDA it : Includes(LowerAscii(it.title), LowerAscii(search)))
  IN [i \in 1..Len(hits) |->
        [title |-> hits[i].title, year |-> hits[i].year, rating_key |-> hits[i].ratingKey]]

\* `for (const r of results)` of the search by id: the first row whose
\* rating_key is that of the indexed item bearing the id
RECURSIVE TautulliIdScan(_, _)
TautulliIdScan(rows, indexed) ==
  IF rows = <<>> THEN 0
  ELSE IF indexed # NoEntry /\ indexed.ratingKey = Head(rows).rating_key
    THEN Head(rows).rating_key
  ELSE TautulliIdScan(Tail(rows), indexed)

\* the title test of checkViaTautulli
TautulliTitleMatch(title, rowTitle) ==
  LET normSearch == normalize(title)
      normResult == normalize(rowTitle)
  IN \/ normSearch = normResult
     \/ (normSearch = FirstWord(normResult) /\ Len(normSearch) >= 8)
     \/ (normResult = FirstWord(normSearch) /\ Len(normResult) >= 8)

\* the year test of checkViaTautulli: both years present and at most 1 apart
TautulliYearMatch(year, rowYear) ==
  year # NoYear /\ rowYear # NoYear /\ Abs(rowYear - year) <= 1

\* `for (const r of results)` of the search by title: the first matching row
RECURSIVE TautulliTitleScan(_, _, _)
TautulliTitleScan(rows, title, year) ==
  IF rows = <<>> THEN <<>>
  ELSE IF TautulliTitleMatch(title, Head(rows).title)
          /\ TautulliYearMatch(year, Head(rows).year)
    THEN <<Head(rows)>>
  ELSE TautulliTitleScan(Tail(rows), title, year)

\* checkViaTautulli, from section `sections[1]` on. acc.calls lists the
\* requests made; tautFail are the requests (section id, "id" | "title") that
\* throw, which ends the try block of that section.
RECURSIVE TautulliSections(_, _, _, _, _, _)
TautulliSections(acc, lib, gi, sections, e, tautFail) ==
  IF sections = <<>> THEN acc
  ELSE
    LET section == Head(sections)
        rest == Tail(sections)
        askId == e.id # NoString
        idFails == askId /\ <<section.id, "id">> \in tautFail
        acc1 == IF askId THEN [acc EXCEPT !.calls = Append(@, <<section.id, "id">>)]
                ELSE acc
        idHit == IF askId /\ ~idFails
                   THEN TautulliIdScan(TautulliRows(lib, section.id, e.id),
                                       lookupByGuid(gi, e.provider, e.id))
                 ELSE 0
        indexed == lookupByGuid(gi, e.provider, e.id)
        askTitle == ~idFails /\ idHit = 0 /\ e.title # NoString
        titleFails == askTitle /\ <<section.id, "title">> \in tautFail
        acc2 == IF askTitle THEN [acc1 EXCEPT !.calls = Append(@, <<section.id, "title">>)]
                ELSE acc1
        titleHit == IF askTitle /\ ~titleFails
                      THEN TautulliTitleScan(TautulliRows(lib, section.id, e.title),
                                             e.title, e.year)
                    ELSE <<>>
    IN IF idHit # 0
         THEN [acc1 EXCEPT !.res = [found |-> TRUE, plexTitle |-> indexed.title,
                                    detectedType |-> indexed.type],
                           !.branch = "id", !.ratingKey = idHit]
       ELSE IF titleHit # <<>>
         THEN [acc2 EXCEPT !.res = [found |-> TRUE, plexTitle |-> titleHit[1].title,
                                    detectedType |-> section.type],
                           !.branch = "title", !.ratingKey = titleHit[1].rating_key]
       ELSE TautulliSections(acc2, lib, gi, rest, e, tautFail)

NoTautulli == [res |-> NotFound, calls |-> <<>>, branch |-> "none", ratingKey |-> 0,
               cache |-> NoCache, sectionRequests |-> 0]

checkViaTautulli(cfg, lib, gi, cache, e, net) ==
  IF ~cfg.tautulli THEN [NoTautulli EXCEPT !.cache = cache]
  ELSE LET secs == getLibrarySections(cache, cfg, net.sectionsFail)
           acc0 == [NoTautulli EXCEPT !.cache = secs.cache,
                                      !.sectionRequests = secs.requests]
       IN TautulliSections(acc0, lib, gi, secs.sections, e, net.tautFail)

\* the server's /search?query=..&type=..: the items of that type, of every
\* section, whose title contains the query or is contained in it, letters
\* and digits compared
ServerSearch(lib, query, type) ==
  LET secs == SelectSeq(ServerSections, LAMBDA s : s.type = type)
      q == normalizeLegacy(query)
      Hit(it) == LET t == normalizeLegacy(it.title)
                 IN Includes(t, q) \/ Includes(q, t)
      RECURSIVE Gather(_)
      Gather(ss) == IF ss = <<>> THEN <<>>
                    ELSE SelectSeq(lib[Head(ss).key], Hit) \o Gather(Tail(ss))
  IN Gather(secs)

\* the title test of searchByTitle
SearchTitleMatch(title, itemTitle) ==
  LET normTitle == normalize(title)
      normPlex == normalize(itemTitle)
  IN normTitle = normPlex \/ Includes(normTitle, normPlex) \/ Includes(normPlex, normTitle)

\* the year test of searchByTitle: a year absent, or at most 1 apart
SearchYearMatch(year, itemYear) ==
  year = NoYear \/ itemYear = NoYear \/ Abs(year - itemYear) <= 1

RECURSIVE SearchScan(_, _, _)
SearchScan(items, title, year) ==
  IF items = <<>> THEN <<>>
  ELSE IF SearchTitleMatch(title, Head(items).title)
          /\ SearchYearMatch(year, Head(items).year)
    THEN <<Head(items)>>
  ELSE SearchScan(Tail(items), title, year)

\* searchByTitle; searchFail are the media types whose request fails
searchByTitle(lib, title, year, type, searchFail) ==
  IF type \in searchFail THEN NotFound
  ELSE LET hit == SearchScan(ServerSearch(lib, title, type), title, year)
       IN IF hit = <<>> THEN NotFound
          ELSE [found |-> TRUE, plexTitle |-> hit[1].title, detectedType |-> type]

\* ------------------------------------------------------------------------
\* checkIfInPlex of the GUID-index implementation
\* ------------------------------------------------------------------------

\* the remote failures one call may meet
NoFailure == [sectionsFail |-> FALSE, failPages |-> {}, tautFail |-> {}, searchFail |-> {},
              scanFail |-> {}, scanThrow |-> FALSE, detailsFail |-> FALSE]

\* the tiers Tier 2 ran when both searches were made
BothSearches(e) == <<<<"search", e.type>>, <<"search", OtherType(e.type)>>>>

\* `if (altResult.found) return { ...altResult, detectedType: otherType }`
TitleSearchAlt(e, altResult) ==
  IF altResult.found
    THEN [res |-> [altResult EXCEPT !.detectedType = OtherType(e.type)],
          tiers |-> BothSearches(e)]
  ELSE [res |-> NotFound, tiers |-> BothSearches(e)]

\* `if (searchResult.found) return searchResult`, else the opposite type
TitleSearchFirst(lib, e, net, searchResult) ==
  IF searchResult.found
    THEN [res |-> searchResult, tiers |-> <<<<"search", e.type>>>>]
  ELSE TitleSearchAlt(e, searchByTitle(lib, e.title, e.year, OtherType(e.type),
                                       net.searchFail))

\* Tier 2 run for every entry, with or without an id
TitleSearchTierAlways(lib, e, net) ==
  TitleSearchFirst(lib, e, net, searchByTitle(lib, e.title, e.year, e.type, net.searchFail))

\* Tier 2 and the not-found result: `if (!id) { ... }` and the final return
TitleSearchTier(lib, e, net) ==
  IF e.id # NoString THEN [res |-> NotFound, tiers |-> <<>>]
  ELSE TitleSearchFirst(lib, e, net,
                        searchByTitle(lib, e.title, e.year, e.type, net.searchFail))

\* the tier labels of the trace
IndexTier(e) == IF e.id # NoString THEN <<<<"index", e.type>>>> ELSE <<>>
TautulliTier(cfg, e) == IF cfg.tautulli THEN <<<<"tautulli", e.type>>>> ELSE <<>>

\* what checkIfInPlex leaves and returns when no tier has resolved yet
CheckOut(build) ==
  [gi |-> build.gi, cache |-> build.cache, build |-> build,
   res |-> NotFound, tiers |-> <<>>, by |-> "none",
   tautCalls |-> <<>>, tautBranch |-> "none", tautKey |-> 0]

\* Tier 2 has run: its result, or found=false
CheckAfterSearch(cfg, e, build, taut, t2) ==
  [CheckOut(build) EXCEPT
     !.res = t2.res,
     !.tiers = IndexTier(e) \o TautulliTier(cfg, e) \o t2.tiers,
     !.by = IF t2.res.found THEN "search" ELSE "none",
     !.cache = taut.cache, !.tautCalls = taut.calls]

\* Tier 1 with a failed request ending the resolution: no later tier is tried
CheckAfterTautulliAborts(cfg, lib, e, net, build, taut) ==
  IF taut.res.found
    THEN [CheckOut(build) EXCEPT
            !.res = taut.res, !.tiers = IndexTier(e) \o TautulliTier(cfg, e),
            !.by = "tautulli", !.cache = taut.cache, !.tautCalls = taut.calls,
            !.tautBranch = taut.branch, !.tautKey = taut.ratingKey]
  ELSE IF net.tautFail # {}
    THEN [CheckOut(build) EXCEPT
            !.tiers = IndexTier(e) \o TautulliTier(cfg, e),
            !.cache = taut.cache, !.tautCalls = taut.calls]
  ELSE CheckAfterSearch(cfg, e, build, taut, TitleSearchTier(lib, e, net))

\* Tier 1 has run: `if (tautulliResult) return tautulliResult`, else Tier 2
CheckAfterTautulli(cfg, lib, e, net, build, taut) ==
  IF taut.res.found
    THEN [CheckOut(build) EXCEPT
            !.res = taut.res, !.tiers = IndexTier(e) \o TautulliTier(cfg, e),
            !.by = "tautulli", !.cache = taut.cache, !.tautCalls = taut.calls,
            !.tautBranch = taut.branch, !.tautKey = taut.ratingKey]
  ELSE CheckAfterSearch(cfg, e, build, taut, TitleSearchTier(lib, e, net))

\* Tier 0 has run: `if (indexed) return {found: true, ...}`, else Tier 1
CheckAfterIndex(cfg, lib, e, net, build, indexed) ==
  IF indexed # NoEntry
    THEN [CheckOut(build) EXCEPT
            !.res = [found |-> TRUE, plexTitle |-> indexed.title,
                     detectedType |-> indexed.type],
            !.tiers = IndexTier(e), !.by = "index"]
  ELSE CheckAfterTautulli(cfg, lib, e, net, build,
                          checkViaTautulli(cfg, lib, build.gi, build.cache, e, net))

\* the resolution with Tier 0 left out: Tier 1 runs whatever the index holds
CheckWithIndexSkipsTierZero(cfg, lib, e, net, build) ==
  CheckAfterIndex(cfg, lib, e, net, build, NoEntry)

\* `await buildGuidIndex(config)` done: Tier 0, `if (id) lookupByGuid(...)`
CheckWithIndex(cfg, lib, e, net, build) ==
  CheckAfterIndex(cfg, lib, e, net, build,
                  IF e.id # NoString THEN lookupByGuid(build.gi, e.provider, e.id)
                  ELSE NoEntry)

\* checkIfInPlex(title, year, type, config, provider, id): the result, the
\* index and section cache it leaves, and the tiers it ran, in order
checkIfInPlex(cfg, lib, gi0, cache0, e, net) ==
  CheckWithIndex(cfg, lib, e, net, buildGuidIndex(gi0, cache0, cfg, lib, net))

\* ------------------------------------------------------------------------
\* The legacy implementation: isIdMatch, checkViaTautulli, checkTypeInPlex
\* ------------------------------------------------------------------------

SLASHES == <<":", "/", "/">>

\* isIdMatch(item, provider, id)
isIdMatch(item, provider, id) ==
  IF provider = NoProvider \/ id = NoString THEN FALSE
  ELSE
    LET targetGuid == ProviderChars(provider) \o SLASHES \o id
        strict == \E g \in Range(item.Guid) : g = targetGuid
        imdbGuids == \E g \in Range(item.Guid) : EndsWith(g, SLASHES \o id)
        imdbLegacy == item.guid # NoString
                      /\ (Includes(item.guid, SLASHES \o id) \/ EndsWith(item.guid, id))
        m2 == IF ~strict /\ StartsWith(id, TT) THEN (imdbGuids \/ imdbLegacy) ELSE strict
        tvdbGuids == \E g \in Range(item.Guid) :
                       g = THETVDB_SCHEME \o id \/ EndsWith(g, <<"/">> \o id)
        tvdbLegacy == item.guid # NoString
                      /\ (Includes(item.guid, THETVDB_SCHEME \o id)
                          \/ Includes(item.guid, TVDB_SCHEME \o id))
    IN IF ~m2 /\ provider = "tvdb" THEN (tvdbGuids \/ tvdbLegacy) ELSE m2

\* the item of the library with this ratingKey, as /library/metadata/<key>
\* answers: <<item>>, or <<>> when there is none
ServerMetadata(lib, ratingKey) ==
  LET all == lib["1"] \o lib["2"] \o lib["3"] \o lib["4"]
  IN SelectSeq(all, LAMBDA it : it.ratingKey = ratingKey)

\* fetchItemDetails: <<item>> or <<>> (null)
fetchItemDetails(lib, ratingKey, detailsFail) ==
  IF detailsFail THEN <<>> ELSE ServerMetadata(lib, ratingKey)

\* the verification trusting the first candidate whose metadata can be read
RECURSIVE LegacyVerifyTrusts(_, _, _, _)
LegacyVerifyTrusts(cands, lib, e, detailsFail) ==
  IF cands = <<>> THEN <<>>
  ELSE LET full == IF Head(cands).rating_key = 0 THEN <<>>
                   ELSE fetchItemDetails(lib, Head(cands).rating_key, detailsFail)
       IN IF full # <<>> THEN full
          ELSE LegacyVerifyTrusts(Tail(cands), lib, e, detailsFail)

\* `for (const candidate of candidates)`: the first candidate whose full
\* metadata bears the id
RECURSIVE LegacyVerify(_, _, _, _)
LegacyVerify(cands, lib, e, detailsFail) ==
  IF cands = <<>> THEN <<>>
  ELSE LET full == IF Head(cands).rating_key = 0 THEN <<>>
                   ELSE fetchItemDetails(lib, Head(cands).rating_key, detailsFail)
       IN IF full # <<>> /\ isIdMatch(full[1], e.provider, e.id) THEN full
          ELSE LegacyVerify(Tail(cands), lib, e, detailsFail)

\* legacy checkViaTautulli over the sections from `sections[1]` on
RECURSIVE LegacyTautulliSections(_, _, _, _, _)
LegacyTautulliSections(acc, lib, sections, e, net) ==
  IF sections = <<>> THEN acc
  ELSE
    LET section == Head(sections)
        askId == e.id # NoString
        idFails == askId /\ <<section.id, "id">> \in net.tautFail
        byId == IF askId /\ ~idFails THEN TautulliRows(lib, section.id, e.id) ELSE <<>>
        acc1 == IF askId THEN [acc EXCEPT !.calls = Append(@, <<section.id, "id">>)]
                ELSE acc
        askTitle == ~idFails /\ byId = <<>> /\ e.title # NoString
        titleFails == askTitle /\ <<section.id, "title">> \in net.tautFail
        byTitle == IF askTitle /\ ~titleFails
                     THEN TautulliRows(lib, section.id, e.title) ELSE <<>>
        acc2 == IF askTitle THEN [acc1 EXCEPT !.calls = Append(@, <<section.id, "title">>)]
                ELSE acc1
        hit == IF idFails \/ titleFails THEN <<>>
               ELSE LegacyVerify(byId \o byTitle, lib, e, net.detailsFail)
    IN IF hit # <<>>
         THEN [acc2 EXCEPT !.res = [found |-> TRUE, plexTitle |-> hit[1].title,
                                    detectedType |-> section.type],
                           !.branch = "verified", !.ratingKey = hit[1].ratingKey]
       ELSE LegacyTautulliSections(acc2, lib, Tail(sections), e, net)

checkViaTautulliLegacy(cfg, lib, sectionsList, e, net) ==
  IF ~cfg.tautulli THEN NoTautulli
  ELSE LegacyTautulliSections(NoTautulli, lib, sectionsList, e, net)

\* the server's /search answer with each item's librarySectionID
ServerSearchSections(lib, query, type) ==
  LET secs == SelectSeq(ServerSections, LAMBDA s : s.type = type)
      q == normalizeLegacy(query)
      Hit(it) == LET t == normalizeLegacy(it.title)
                 IN Includes(t, q) \/ Includes(q, t)
      Tag(items, key) == [i \in 1..Len(items) |-> [item |-> items[i], librarySectionID |-> key]]
      RECURSIVE Gather(_)
      Gather(ss) == IF ss = <<>> THEN <<>>
                    ELSE Tag(SelectSeq(lib[Head(ss).key], Hit), Head(ss).key)
                         \o Gather(Tail(ss))
  IN Gather(secs)

\* the `for (const item of results)` loop of M1
RECURSIVE LegacySearchScan(_, _, _)
LegacySearchScan(results, relevant, e) ==
  IF results = <<>> THEN <<>>
  ELSE
    LET r == Head(results)
        item == r.item
        skipped == relevant # <<>> /\ r.librarySectionID \notin Range(relevant)
        byId == e.provider # NoProvider /\ e.id # NoString
        yearMatch == e.year = NoYear \/ item.year = NoYear \/ Abs(item.year - e.year) <= 1
        titleMatch == normalizeLegacy(e.title) = normalizeLegacy(item.title)
                      \/ normalizeLegacy(e.title) = normalizeLegacy(NoString)
    IN IF skipped THEN LegacySearchScan(Tail(results), relevant, e)
       ELSE IF byId
         THEN IF isIdMatch(item, e.provider, e.id) THEN <<item>>
              ELSE LegacySearchScan(Tail(results), relevant, e)
       ELSE IF yearMatch /\ titleMatch THEN <<item>>
       ELSE LegacySearchScan(Tail(results), relevant, e)

\* M1 of checkTypeInPlex: <<item>> found, or <<>>
LegacyTitleSearch(lib, relevant, e, type, net) ==
  IF type \in net.searchFail THEN <<>>
  ELSE LegacySearchScan(ServerSearchSections(lib, e.title, type), relevant, e)

\* the server's answer to /library/sections/<id>/all?year=<y>: the items of
\* the section of that year (every item when y is NoYear, the ALL scan)
ServerYearPage(lib, sectionId, y, start, size) ==
  LET all == IF y = NoYear THEN lib[sectionId]
             ELSE SelectSeq(lib[sectionId], LAMBDA it : it.year = y)
      last == IF start + size < Len(all) THEN start + size ELSE Len(all)
  IN SubSeq(all, start + 1, last)

\* the `while (hasMore)` loop of M2 and M3: the items gathered, the requests
\* made, and whether a request failed; scanFail are the failing requests
RECURSIVE LegacyEnumerate(_, _, _, _, _)
LegacyEnumerate(acc, lib, key, start, scanFail) ==
  LET asked == [acc EXCEPT !.pages = Append(@, <<key[1], key[2], start>>)]
  IN IF <<key[1], key[2], start>> \in scanFail THEN [asked EXCEPT !.failed = TRUE]
     ELSE LET page == ServerYearPage(lib, key[1], key[2], start, PageSize)
              more == [asked EXCEPT !.items = @ \o page]
          IN IF Len(page) < PageSize THEN more
             ELSE LegacyEnumerate(more, lib, key, start + PageSize, scanFail)

\* the first item of the list that bears the id
RECURSIVE FirstIdMatch(_, _)
FirstIdMatch(items, e) ==
  IF items = <<>> THEN <<>>
  ELSE IF isIdMatch(Head(items), e.provider, e.id) THEN <<Head(items)>>
  ELSE FirstIdMatch(Tail(items), e)

\* the deep scan: the items listed without Guid, looked up one by one
RECURSIVE DeepScan(_, _, _, _)
DeepScan(items, lib, e, detailsFail) ==
  IF items = <<>> THEN <<>>
  ELSE LET it == Head(items)
           full == IF it.Guid = <<>> /\ it.ratingKey # 0
                     THEN fetchItemDetails(lib, it.ratingKey, detailsFail) ELSE <<>>
       IN IF full # <<>> /\ isIdMatch(full[1], e.provider, e.id) THEN full
          ELSE DeepScan(Tail(items), lib, e, detailsFail)

\* `return { found: true, ... }` of the direct test, else of the deep scan
ScanOutcome(acc, direct, deep) ==
  IF direct # <<>> THEN [acc EXCEPT !.hit = direct]
  ELSE IF deep # <<>> THEN [acc EXCEPT !.hit = deep]
  ELSE acc

\* one key of the loop, its items at hand: the direct test, then the deep scan
ScanItems(acc, lib, e, type, net, items) ==
  ScanOutcome(acc, FirstIdMatch(items, e),
              IF type = "show" THEN DeepScan(items, lib, e, net.detailsFail) ELSE <<>>)

\* the section/year loops of M2 (keys <<section, year>>) and the section loop
\* of M3 (keys <<section, NoYear>>), inside their try block. A failed request
\* that answers with a non-success status ends the enumeration and its items
\* so far are cached; one that throws leaves the try block.
RECURSIVE LegacyScanKeys(_, _, _, _, _, _)

\* the key gave a match, or the loop goes on with the next key
ScanNext(acc, lib, keys, e, type, net) ==
  IF acc.hit # <<>> THEN acc
  ELSE LegacyScanKeys(acc, lib, Tail(keys), e, type, net)

\* the key's enumeration is done, `scanCache.set(cacheKey, items)` left out
ScanEnumeratedNoStore(acc, lib, keys, e, type, net, enum) ==
  IF enum.failed /\ net.scanThrow THEN [acc EXCEPT !.pages = @ \o enum.pages]
  ELSE ScanNext(ScanItems([acc EXCEPT !.pages = @ \o enum.pages],
                          lib, e, type, net, enum.items),
                lib, keys, e, type, net)

\* the key's enumeration is done (or was cached)
ScanEnumerated(acc, lib, keys, e, type, net, enum) ==
  IF enum.failed /\ net.scanThrow THEN [acc EXCEPT !.pages = @ \o enum.pages]
  ELSE ScanNext(ScanItems([acc EXCEPT !.pages = @ \o enum.pages,
                                      !.cache = MapSet(@, Head(keys), enum.items)],
                          lib, e, type, net, enum.items),
                lib, keys, e, type, net)

LegacyScanKeys(acc, lib, keys, e, type, net) ==
  IF keys = <<>> THEN acc
  ELSE ScanEnumerated(acc, lib, keys, e, type, net,
         IF Head(keys) \in DOMAIN acc.cache
           THEN [items |-> acc.cache[Head(keys)], pages |-> <<>>, failed |-> FALSE]
         ELSE LegacyEnumerate([items |-> <<>>, pages |-> <<>>, failed |-> FALSE],
                              lib, Head(keys), 0, net.scanFail))

\* the years of a window one year wider on the upper side
ScanYearsWide(year) ==
  SelectSeq(<<year, year - 1, year + 1, year + 2>>, LAMBDA y : y > 1900 /\ y < 2100)

\* the years M2 scans, in order
ScanYears(year) ==
  SelectSeq(<<year, year - 1, year + 1>>, LAMBDA y : y > 1900 /\ y < 2100)

\* the keys of M2: for each relevant section, each year
RECURSIVE YearKeys(_, _)
YearKeys(relevant, years) ==
  IF relevant = <<>> THEN <<>>
  ELSE [i \in 1..Len(years) |-> <<Head(relevant), years[i]>>] \o YearKeys(Tail(relevant), years)

\* the keys of M3: each relevant section
AllKeys(relevant) == [i \in 1..Len(relevant) |-> <<relevant[i], NoYear>>]

\* sectionsList.filter(s => s.type === type).map(s => s.id)
RelevantSections(sectionsList, type) ==
  LET ofType == SelectSeq(sectionsList, LAMBDA s : s.type = type)
  IN [i \in 1..Len(ofType) |-> ofType[i].id]

\* the methods checkTypeInPlex runs for the type when none resolves
LegacyTiers(e, type, upTo) ==
  <<<<"search", type>>>>
  \o (IF upTo >= 2 /\ e.id # NoString /\ e.year # NoYear
        THEN <<<<"yearscan", type>>>> ELSE <<>>)
  \o (IF upTo >= 3 /\ e.id # NoString THEN <<<<"fullscan", type>>>> ELSE <<>>)

\* a scan's state before its loop
ScanStart(cache, pages) == [cache |-> cache, pages |-> pages, hit |-> <<>>]

\* M3 has run: its match, or `return { found: false, plexTitle: null }`
TypeAfterFullScan(e, type, m3) ==
  [found |-> m3.hit # <<>>,
   plexTitle |-> IF m3.hit # <<>> THEN m3.hit[1].title ELSE NoString,
   cache |-> m3.cache, tiers |-> LegacyTiers(e, type, 3), pages |-> m3.pages]

\* M2 has run: its match, else M3 `if (id)`
TypeAfterYearScan(lib, relevant, e, type, net, m2) ==
  IF m2.hit # <<>>
    THEN [found |-> TRUE, plexTitle |-> m2.hit[1].title, cache |-> m2.cache,
          tiers |-> LegacyTiers(e, type, 2), pages |-> m2.pages]
  ELSE TypeAfterFullScan(e, type,
         IF e.id # NoString
           THEN LegacyScanKeys(ScanStart(m2.cache, m2.pages), lib, AllKeys(relevant),
                               e, type, net)
         ELSE m2)

\* M1 has run: its match, else M2 `if (id && year)`
TypeAfterSearch(lib, cache0, relevant, e, type, net, m1) ==
  IF m1 # <<>>
    THEN [found |-> TRUE, plexTitle |-> m1[1].title, cache |-> cache0,
          tiers |-> LegacyTiers(e, type, 1), pages |-> <<>>]
  ELSE TypeAfterYearScan(lib, relevant, e, type, net,
         IF e.id # NoString /\ e.year # NoYear
           THEN LegacyScanKeys(ScanStart(cache0, <<>>), lib,
                               YearKeys(relevant, ScanYears(e.year)), e, type, net)
         ELSE ScanStart(cache0, <<>>))

\* the relevant sections known: M1
TypeInSections(lib, cache0, relevant, e, type, net) ==
  TypeAfterSearch(lib, cache0, relevant, e, type, net,
                  LegacyTitleSearch(lib, relevant, e, type, net))

\* checkTypeInPlex(title, year, type, ...): M1, then M2, then M3
checkTypeInPlex(lib, cache0, sectionsList, e, type, net) ==
  TypeInSections(lib, cache0, RelevantSections(sectionsList, type), e, type, net)

\* what the legacy checkIfInPlex leaves and returns, Tautulli having run
LegacyOut(secs, scan, taut) ==
  [cache |-> secs.cache, scan |-> scan, res |-> NotFound, tiers |-> <<>>,
   by |-> "none", tautCalls |-> taut.calls, tautBranch |-> taut.branch,
   tautKey |-> taut.ratingKey, pages |-> <<>>]

\* the method that matched: the last one of the trace
LastTier(tiers) == tiers[Len(tiers)][1]

\* the second pass has run
LegacyAfterSecond(cfg, e, secs, taut, first, second) ==
  [LegacyOut(secs, second.cache, taut) EXCEPT
     !.res = IF second.found
               THEN [found |-> TRUE, plexTitle |-> second.plexTitle,
                     detectedType |-> OtherType(e.type)]
             ELSE NotFound,
     !.tiers = TautulliTier(cfg, e) \o first.tiers \o second.tiers,
     !.by = IF second.found THEN LastTier(second.tiers) ELSE "none",
     !.pages = first.pages \o second.pages]

\* the first pass has run: `if (res.found) return`, else the opposite type
LegacyAfterFirst(cfg, lib, e, net, secs, taut, first) ==
  IF first.found
    THEN [LegacyOut(secs, first.cache, taut) EXCEPT
            !.res = [found |-> TRUE, plexTitle |-> first.plexTitle,
                     detectedType |-> e.type],
            !.tiers = TautulliTier(cfg, e) \o first.tiers,
            !.by = LastTier(first.tiers), !.pages = first.pages]
  ELSE LegacyAfterSecond(cfg, e, secs, taut, first,
         checkTypeInPlex(lib, first.cache, secs.sections, e, OtherType(e.type), net))

\* M0 has run: `if (tautulliRes) return`, else the declared type
LegacyAfterTautulli(cfg, lib, scan0, e, net, secs, taut) ==
  IF taut.res.found
    THEN [LegacyOut(secs, scan0, taut) EXCEPT
            !.res = taut.res, !.tiers = TautulliTier(cfg, e), !.by = "tautulli"]
  ELSE LegacyAfterFirst(cfg, lib, e, net, secs, taut,
         checkTypeInPlex(lib, scan0, secs.sections, e, e.type, net))

\* the sections known: M0
LegacyWithSections(cfg, lib, scan0, e, net, secs) ==
  LegacyAfterTautulli(cfg, lib, scan0, e, net, secs,
                      checkViaTautulliLegacy(cfg, lib, secs.sections, e, net))

\* legacy checkIfInPlex: Tautulli, then the declared type, then the other
checkIfInPlexLegacy(cfg, lib, cache0, scan0, e, net) ==
  LegacyWithSections(cfg, lib, scan0, e, net,
                     getLibrarySections(cache0, cfg, net.sectionsFail))

\* clearScanCache of the legacy implementation
clearScanCacheLegacy == [scan |-> EmptyMap, cache |-> NoCache]

\* ------------------------------------------------------------------------
\* The resolver on its own: the exported functions of plexChecker called in
\* any order against one library
\* ------------------------------------------------------------------------

\* the page requests and Tautulli requests that may fail, and the searches
PageFailures == {{}, {<<"1", 0>>}, {<<"1", PageSize>>}, {<<"2", 0>>}}
TautFailures == {{}, {<<"1", "id">>, <<"2", "title">>}}
SearchFailures == {{}, {"movie"}}

BuildNets ==
  [sectionsFail : BOOLEAN, failPages : PageFailures, tautFail : {{}}, searchFail : {{}},
   scanFail : {{}}, scanThrow : {FALSE}, detailsFail : {FALSE}]
TierNets ==
  [sectionsFail : {FALSE}, failPages : {{}}, tautFail : TautFailures,
   searchFail : SearchFailures, scanFail : {{}}, scanThrow : {FALSE}, detailsFail : {FALSE}]
\* what a call of the legacy checkIfInPlex may meet; scanFail are the failing
\* enumeration requests <<section, year or NoYear, start>>; a call that finds
\* the sections cached makes no section request
LegacyNets(cache) ==
  { n \in { NoFailure,
            [NoFailure EXCEPT !.sectionsFail = TRUE],
            [NoFailure EXCEPT !.tautFail = {<<"1", "id">>, <<"2", "title">>}],
            [NoFailure EXCEPT !.searchFail = {"movie"}],
            [NoFailure EXCEPT !.scanFail = {<<"2", NoYear, 0>>, <<"1", 2009, 0>>}],
            [NoFailure EXCEPT !.scanFail = {<<"2", NoYear, 0>>, <<"1", 2009, 0>>},
                              !.scanThrow = TRUE],
            [NoFailure EXCEPT !.detailsFail = TRUE] } :
      n.sectionsFail => ~cache.set }
\* a call that finds the index loaded makes no index request
NetsFor(gi) == IF gi.loaded THEN TierNets ELSE TierNets \cup BuildNets

\* the entries checkIfInPlex is called with
CheckEntries ==
  { [title |-> T_Up, year |-> 2009, type |-> "movie", provider |-> "imdb", id |-> ID_tt1],
    [title |-> T_Up, year |-> 2009, type |-> "show", provider |-> NoProvider, id |-> ID_tt1],
    [title |-> T_up, year |-> 2009, type |-> "movie", provider |-> "tmdb", id |-> ID_8],
    [title |-> T_Up, year |-> 2009, type |-> "movie", provider |-> "tmdb", id |-> ID_tt1],
    [title |-> T_Up, year |-> 2011, type |-> "movie", provider |-> "tvdb", id |-> ID_8],
    [title |-> T_CloseUp, year |-> 2010, type |-> "movie", provider |-> "tvdb", id |-> ID_7],
    [title |-> T_UpInTheAir, year |-> 2011, type |-> "show", provider |-> "tmdb", id |-> ID_9],
    [title |-> T_up, year |-> 2010, type |-> "show", provider |-> NoProvider, id |-> NoString],
    [title |-> T_Up, year |-> NoYear, type |-> "show", provider |-> NoProvider, id |-> NoString],
    [title |-> T_CloseUp, year |-> 2011, type |-> "movie", provider |-> NoProvider, id |-> NoString],
    [title |-> T_UpInTheAir, year |-> 2009, type |-> "movie", provider |-> NoProvider, id |-> NoString] }

\* the entries the legacy checkIfInPlex is called with
LegacyEntries ==
  { e \in CheckEntries :
      \/ e.provider \in {"imdb", "tvdb"}
      \/ e.id = NoString /\ e.title # T_CloseUp }

NoBuild == [called |-> FALSE, built |-> FALSE, pages |-> <<>>, sectionRequests |-> 0,
            indexFailed |-> FALSE, failedPages |-> {}, sectionsFailed |-> FALSE]
NoCheck == [valid |-> FALSE, e |-> [title |-> NoString, year |-> NoYear, type |-> "movie",
                                   provider |-> NoProvider, id |-> NoString],
            res |-> NotFound, tiers |-> <<>>, by |-> "none",
            tautCalls |-> <<>>, tautBranch |-> "none", tautKey |-> 0,
            indexedKey |-> 0, loadedBefore |-> FALSE, pages |-> <<>>, clean |-> FALSE,
            failed |-> {}]

\* the tiers of a call that had a request fail (the `!res.ok` returns and the
\* catch blocks taken), from the requests it made and the failures it met
FailedTiers(tautCalls, tiers, pages, net) ==
  (IF \E call \in Range(tautCalls) : call \in net.tautFail THEN {"tautulli"} ELSE {})
  \cup (IF \E t \in Range(tiers) : t[1] = "search" /\ t[2] \in net.searchFail
          THEN {"search"} ELSE {})
  \cup (IF \E pg \in Range(pages) : pg \in net.failPages \cup net.scanFail
          THEN {"pages"} ELSE {})
  \cup (IF net.sectionsFail THEN {"sections"} ELSE {})

\* the log of a buildGuidIndex call; indexFailed tells whether the build of
\* the index now in place met a failed request, failedPages are the page
\* requests of this call that failed and sectionsFailed tells whether its
\* section listing did
BuildRecord(b, prev, net) ==
  [called |-> TRUE, built |-> b.built, pages |-> b.pages,
   sectionRequests |-> b.sectionRequests,
   indexFailed |-> IF b.built THEN b.failed ELSE prev.indexFailed,
   failedPages |-> Range(b.pages) \cap net.failPages,
   sectionsFailed |-> b.sectionRequests = 1 /\ net.sectionsFail]

\* no feed has been fetched
NoFetch == [sources |-> <<>>, failed |-> {}]

\* the state of index.js before the first run() call
NoItem == [valid |-> FALSE, uid |-> 0, found |-> FALSE, created |-> FALSE,
           detectedType |-> "none", before |-> "none"]
NoEmbed == [movies |-> <<>>, shows |-> <<>>, total |-> 0]
NoChannel == [added |-> NoEmbed, addedSent |-> "no", pending |-> <<>>, pendingSent |-> "no"]
NoReturn == [call |-> "none", addedFilms |-> 0, addedShows |-> 0]

CycleInit ==
  /\ isScanning = FALSE
  /\ pc = "idle"
  /\ now = 1
  /\ entries = <<>>
  /\ allItems = <<>>
  /\ fetched = NoFetch
  /\ pos = 0
  /\ addedThisScan = <<>>
  /\ becameAdded = <<>>
  /\ lastItem = NoItem
  /\ cycleClean = FALSE
  /\ channel = NoChannel
  /\ stateFile = <<>>
  /\ dropped = 0
  /\ ret = NoReturn

\* no checkBatch call has been made
NoBatch == [pc |-> "idle", items |-> <<>>, concurrency |-> 0, i |-> 0, inFlight |-> {},
            building |-> {}, builds |-> 0,
            settled |-> <<>>, results |-> <<>>]

CheckerInit ==
  /\ guidIndex = EmptyIndex
  /\ sectionsCache = NoCache
  /\ scanCache = EmptyMap
  /\ lastBuild = NoBuild
  /\ lastCheck = NoCheck

\* the libraries and configurations the legacy resolver is run against
LegacyLibraries ==
  { MakeLibrary(<<ItemUp, ItemCloseUpMovie, ItemAir>>, <<ItemCloseUpShow, ItemUpShow>>,
                <<ItemUpKids>>),
    MakeLibrary(<<>>, <<ItemUpShow>>, <<>>),
    MakeLibrary(<<ItemUp>>, <<ItemCloseUpShow, ItemUpShow>>, <<>>) }
LegacyConfigs == { c \in Configs : c.tautulli = (c.excludeLibraries # {}) }

InitCheck ==
  /\ batch = NoBatch
  /\ \/ impl = "guid" /\ config \in Configs /\ plex \in Libraries
     \/ impl = "legacy" /\ config \in LegacyConfigs /\ plex \in LegacyLibraries
  /\ CheckerInit
  /\ CycleInit

\* clearScanCache()
ClearScanCache ==
  /\ guidIndex' = clearScanCacheGuid.gi
  /\ sectionsCache' = IF impl = "guid" THEN clearScanCacheGuid.cache
                      ELSE clearScanCacheLegacy.cache
  /\ scanCache' = clearScanCacheLegacy.scan
  /\ lastBuild' = NoBuild
  /\ lastCheck' = NoCheck
  /\ UNCHANGED <<envVars, batch, cycleVars>>

\* buildGuidIndex(config)
BuildGuidIndex ==
  /\ impl = "guid"
  /\ \E net \in BuildNets :
    \E b \in {buildGuidIndex(guidIndex, sectionsCache, config, plex, net)} :
       /\ guidIndex' = b.gi
       /\ sectionsCache' = b.cache
       /\ lastBuild' = BuildRecord(b, lastBuild, net)
       /\ UNCHANGED <<scanCache, lastCheck, envVars, batch, cycleVars>>

\* checkIfInPlex(title, year, type, config, provider, id)
CheckIfInPlex ==
  /\ impl = "guid"
  /\ \E e \in CheckEntries, net \in NetsFor(guidIndex) :
    \E c \in {checkIfInPlex(config, plex, guidIndex, sectionsCache, e, net)} :
       /\ guidIndex' = c.gi
       /\ sectionsCache' = c.cache
       /\ lastBuild' = IF c.build.built THEN BuildRecord(c.build, lastBuild, net) ELSE lastBuild
       /\ lastCheck' = [valid |-> TRUE, e |-> e, res |-> c.res, tiers |-> c.tiers,
                        by |-> c.by, tautCalls |-> c.tautCalls,
                        tautBranch |-> c.tautBranch, tautKey |-> c.tautKey,
                        indexedKey |-> lookupByGuid(c.gi, e.provider, e.id).ratingKey,
                        loadedBefore |-> guidIndex.loaded, pages |-> c.build.pages,
                        clean |-> net = NoFailure,
                        failed |-> FailedTiers(c.tautCalls, c.tiers, c.build.pages, net)]
       /\ UNCHANGED <<scanCache, envVars, batch, cycleVars>>

\* checkIfInPlex(title, year, type, config, provider, id) of the legacy
\* implementation
CheckIfInPlexLegacy ==
  /\ impl = "legacy"
  /\ \E e \in LegacyEntries, net \in LegacyNets(sectionsCache) :
    \E c \in {checkIfInPlexLegacy(config, plex, sectionsCache, scanCache, e, net)} :
       /\ sectionsCache' = c.cache
       /\ scanCache' = c.scan
       /\ lastCheck' = [valid |-> TRUE, e |-> e, res |-> c.res, tiers |-> c.tiers,
                        by |-> c.by, tautCalls |-> c.tautCalls,
                        tautBranch |-> c.tautBranch, tautKey |-> c.tautKey,
                        indexedKey |-> 0, loadedBefore |-> FALSE, pages |-> c.pages,
                        clean |-> net = NoFailure,
                        failed |-> FailedTiers(c.tautCalls, c.tiers, c.pages, net)]
       /\ UNCHANGED <<guidIndex, lastBuild, envVars, batch, cycleVars>>

NextCheck == ClearScanCache \/ BuildGuidIndex \/ CheckIfInPlex \/ CheckIfInPlexLegacy

SpecCheck == InitCheck /\ [][NextCheck]_vars

\* ------------------------------------------------------------------------
\* Properties of the resolver (SpecCheck)
\* ------------------------------------------------------------------------

\* the sections buildGuidIndex is to enumerate: movie and show, not excluded
KeptSections ==
  SelectSeq(ServerSections,
            LAMBDA s : s.type \in {"movie", "show"} /\ s.title \notin config.excludeLibraries)

\* the (provider, id) a library identifier stands for
GuidProvider(g) ==
  IF StartsWith(g, IMDB_SCHEME) THEN "imdb"
  ELSE IF StartsWith(g, TMDB_SCHEME) THEN "tmdb"
  ELSE IF StartsWith(g, TVDB_SCHEME) \/ StartsWith(g, THETVDB_SCHEME) THEN "tvdb"
  ELSE NoProvider

GuidId(g) ==
  LET scheme == IF StartsWith(g, IMDB_SCHEME) THEN IMDB_SCHEME
                ELSE IF StartsWith(g, TMDB_SCHEME) THEN TMDB_SCHEME
                ELSE IF StartsWith(g, TVDB_SCHEME) THEN TVDB_SCHEME
                ELSE IF StartsWith(g, THETVDB_SCHEME) THEN THETVDB_SCHEME
                ELSE <<>>
  IN SubSeq(g, Len(scheme) + 1, Len(g))

\* the identified items of the kept sections: <<section, item, identifier>>
KeptIdentifiers ==
  UNION { UNION { { <<sec, it, g>> : g \in Range(it.Guid) } :
                  it \in Range(plex[sec.key]) } :
          sec \in Range(KeptSections) }

\* no two library items bear the same (provider, id)
UniqueIdentifiers ==
  \A t1, t2 \in KeptIdentifiers :
    (GuidProvider(t1[3]) = GuidProvider(t2[3]) /\ GuidId(t1[3]) = GuidId(t2[3]))
      => t1[2].ratingKey = t2[2].ratingKey

\* the entry is in the index: its id is a key of its provider's table
InIndex(e) ==
  /\ e.id # NoString
  /\ e.provider \in Providers
  /\ e.id \in DOMAIN guidIndex[e.provider]

\* C5: an entry whose external id is in the built index is resolved by the
\* index tier alone: found, with the indexed item's title and type, and no
\* request to Tautulli, to the title search or to a section enumeration.
C5_IndexHitResolvesAlone ==
  (lastCheck.valid /\ InIndex(lastCheck.e)) =>
    /\ lastCheck.res.found
    /\ lastCheck.by = "index"
    /\ lastCheck.res.plexTitle = guidIndex[lastCheck.e.provider][lastCheck.e.id].title
    /\ lastCheck.res.detectedType = guidIndex[lastCheck.e.provider][lastCheck.e.id].type
    /\ lastCheck.tiers = <<<<"index", lastCheck.e.type>>>>
    /\ lastCheck.tautCalls = <<>>
    /\ lastCheck.loadedBefore => lastCheck.pages = <<>>

C5_Witness ==
  /\ lastCheck.valid
  /\ lastCheck.loadedBefore
  /\ config.tautulli
  /\ InIndex(lastCheck.e)
  /\ lastCheck.e.provider = "tvdb"
  /\ lastCheck.by = "index"

\* C8: once the index is built, every imdb / tmdb / tvdb identifier of every
\* item of a kept section looks up that item. Stated for builds that met no
\* failed request and libraries in which no two items share an identifier.
C8_EveryIdentifierLooksUpItsItem ==
  (guidIndex.loaded /\ ~lastBuild.indexFailed /\ UniqueIdentifiers) =>
    \A t \in KeptIdentifiers :
      GuidProvider(t[3]) \in Providers =>
        lookupByGuid(guidIndex, GuidProvider(t[3]), GuidId(t[3])) =
          [title |-> t[2].title, year |-> t[2].year, ratingKey |-> t[2].ratingKey,
           type |-> t[1].type, sectionId |-> t[1].key]

\* C9: a match of the Tautulli tier is a candidate whose rating key is that of
\* the indexed item bearing the entry's external id.
C9_TautulliMatchIsIndexVerified ==
  (lastCheck.valid /\ lastCheck.by = "tautulli") =>
    /\ lastCheck.indexedKey # 0
    /\ lastCheck.tautKey = lastCheck.indexedKey

\* the tiers checkIfInPlex is to run for an entry when none resolves it
FullPass(e, type) ==
  <<<<"search", type>>>>
  \o (IF e.id # NoString /\ e.year # NoYear THEN <<<<"yearscan", type>>>> ELSE <<>>)
  \o (IF e.id # NoString THEN <<<<"fullscan", type>>>> ELSE <<>>)

FullSequence(e) ==
  IF impl = "guid"
    THEN (IF e.id # NoString THEN <<<<"index", e.type>>>> ELSE <<>>)
         \o (IF config.tautulli THEN <<<<"tautulli", e.type>>>> ELSE <<>>)
         \o (IF e.id = NoString
               THEN <<<<"search", e.type>>, <<"search", OtherType(e.type)>>>> ELSE <<>>)
  ELSE (IF config.tautulli THEN <<<<"tautulli", e.type>>>> ELSE <<>>)
       \o FullPass(e, e.type) \o FullPass(e, OtherType(e.type))

IsPrefix(p, q) == Len(p) <= Len(q) /\ SubSeq(q, 1, Len(p)) = p

\* C6 as stated: found=false is returned only after the title search (and the
\* scans) ran for the declared type and again for the opposite type, for
\* entries with and without an id.
C6_NotFoundOnlyAfterBothPasses ==
  (lastCheck.valid /\ ~lastCheck.res.found) =>
    /\ <<"search", lastCheck.e.type>> \in Range(lastCheck.tiers)
    /\ <<"search", OtherType(lastCheck.e.type)>> \in Range(lastCheck.tiers)

\* C6 amended: the tiers run are a prefix of the implementation's sequence,
\* ending with the tier that resolved the entry, and the whole sequence when
\* found=false. The sequence of the GUID-index implementation is index (entry
\* with an id), Tautulli (when configured) and, for an entry without an id
\* only, the title search for the declared and then the opposite type; that
\* of the legacy implementation is Tautulli (when configured), then search,
\* year scan and full scan for the declared type and again for the opposite.
C6_TiersRunInOrder ==
  lastCheck.valid =>
    /\ IsPrefix(lastCheck.tiers, FullSequence(lastCheck.e))
    /\ lastCheck.res.found =>
          /\ lastCheck.tiers # <<>>
          /\ lastCheck.tiers[Len(lastCheck.tiers)][1] = lastCheck.by
    /\ ~lastCheck.res.found => lastCheck.tiers = FullSequence(lastCheck.e)
    /\ (impl = "guid" /\ lastCheck.e.id # NoString) =>
          (lastCheck.by = "index" <=> lastCheck.indexedKey # 0)

C6_Witness ==
  /\ impl = "guid"
  /\ lastCheck.valid
  /\ config.tautulli
  /\ lastCheck.e.id # NoString
  /\ ~lastCheck.res.found
  /\ lastCheck.tiers = <<<<"index", lastCheck.e.type>>, <<"tautulli", lastCheck.e.type>>>>

\* the identifier an entry is looked up by
EntryProvider(e) == IF StartsWith(e.id, TT) THEN "imdb" ELSE e.provider

\* the item bears the entry's external id
Bears(item, e) ==
  \E g \in Range(item.Guid) :
    GuidProvider(g) = EntryProvider(e) /\ GuidId(g) = e.id

\* the item has the entry's title, and a year the entry's year allows
TitleAndYear(item, e) ==
  /\ normalize(item.title) = normalize(e.title)
  /\ (e.year = NoYear \/ item.year = NoYear \/ Abs(item.year - e.year) <= 1)

\* the item could pass for the entry under some test of some tier
LooseMatch(item, e) ==
  \/ Bears(item, e)
  \/ isIdMatch(item, e.provider, e.id)
  \/ SearchTitleMatch(e.title, item.title)
  \/ TautulliTitleMatch(e.title, item.title)
  \/ normalizeLegacy(item.title) = normalizeLegacy(e.title)

\* the entry's only library match is of the opposite type: an item of a kept
\* section of that type bears its id (or, for an entry without id, has its
\* title and year), and no item of the declared type resembles it
OnlyMatchIsOtherType(e) ==
  /\ \E sec \in Range(KeptSections) :
       /\ sec.type = OtherType(e.type)
       /\ \E item \in Range(plex[sec.key]) :
            IF e.id # NoString THEN Bears(item, e) ELSE TitleAndYear(item, e)
  /\ \A sec \in Range(ServerSections) :
       sec.type = e.type => \A item \in Range(plex[sec.key]) : ~LooseMatch(item, e)

\* C7: an entry whose only library match is of the opposite type resolves
\* with found=true and that type as detectedType. Stated for calls that met
\* no failed request, against an index built without one.
C7_FoundAsOtherType ==
  (/\ lastCheck.valid
   /\ lastCheck.clean
   /\ ~lastBuild.indexFailed
   /\ OnlyMatchIsOtherType(lastCheck.e)) =>
    /\ lastCheck.res.found
    /\ lastCheck.res.detectedType = OtherType(lastCheck.e.type)

\* ------------------------------------------------------------------------
\* The scan cycle: run() of index.js, in both implementations
\* ------------------------------------------------------------------------

\* cycles a behaviour may start, and run() calls it may drop
MaxCycles == 2
MaxDropped == 1

\* `addedThisScan.length < 50`: the cap of the newly-available notification,
\* scaled down with the feeds
NotifyLimit == 3

\* addedAt: null
NoTime == 0

\* the items the feeds may serve, as fetchWatchlist returns them
W_up == [title |-> T_up, year |-> 2009, type |-> "movie", provider |-> "imdb", id |-> ID_tt1]
W_UpShow == [title |-> T_Up, year |-> 2011, type |-> "movie", provider |-> "tmdb", id |-> ID_9]
W_CloseUp == [title |-> T_CloseUp, year |-> 2010, type |-> "movie",
              provider |-> NoProvider, id |-> NoString]
W_Air == [title |-> T_UpInTheAir, year |-> 2011, type |-> "movie",
          provider |-> "imdb", id |-> ID_tt2]
W_UpNoId == [title |-> T_Up, year |-> 2009, type |-> "movie",
             provider |-> NoProvider, id |-> NoString]

\* fetchWatchlist answering with the feed's items although the load failed
fetchWatchlistStale(content, fails) == content

\* fetchWatchlist(url): the items of the feed, [] when reading, fetching or
\* parsing it fails (the catch blocks return [])
fetchWatchlist(content, fails) == IF fails THEN <<>> ELSE content

\* a failing feed taking the items of the others with it
RECURSIVE FetchAllOrNothing(_, _, _)
FetchAllOrNothing(sources, failed, k) ==
  IF k > Len(sources) \/ failed # {} THEN <<>>
  ELSE sources[k] \o FetchAllOrNothing(sources, failed, k + 1)

\* (await Promise.all(sources.map(fetchWatchlist))).flat(), from source k on
RECURSIVE FetchAll(_, _, _)
FetchAll(sources, failed, k) ==
  IF k > Len(sources) THEN <<>>
  ELSE fetchWatchlist(sources[k], k \in failed) \o FetchAll(sources, failed, k + 1)

\* the feeds of config.rssUrls as a cycle finds them: what each holds, and
\* which of them fail to load
FeedFetches ==
  { [sources |-> << <<>> >>, failed |-> {}],
    [sources |-> << <<W_up>> >>, failed |-> {}],
    [sources |-> << <<W_up>> >>, failed |-> {1}],
    [sources |-> << <<W_up>>, <<W_UpShow, W_Air>> >>, failed |-> {}],
    [sources |-> << <<W_CloseUp>>, <<W_up>> >>, failed |-> {}],
    [sources |-> << <<W_CloseUp>>, <<W_up>> >>, failed |-> {1}],
    [sources |-> << <<W_up, W_UpNoId>>, <<W_up>> >>, failed |-> {}],
    [sources |-> << <<W_UpShow>>, <<W_CloseUp>> >>, failed |-> {}],
    [sources |-> << <<W_CloseUp>>, <<W_CloseUp>> >>, failed |-> {}] }

\* the item lists a cycle may work on
Feeds == { FetchAll(f.sources, f.failed, 1) : f \in FeedFetches }

\* the libraries the server may hold from one cycle to the next
CycleLibraries ==
  { MakeLibrary(<<>>, <<>>, <<>>),
    MakeLibrary(<<ItemAir, ItemUp>>, <<ItemCloseUpShow, ItemUpShow>>, <<>>),
    MakeLibrary(<<ItemUp, ItemCloseUpMovie, ItemAir>>, <<>>, <<>>) }

CycleConfigs == { c \in Configs : c.excludeLibraries = {} }

\* watchlist.json as loaded at start-up: none, or one written by earlier runs
LoadedEntries ==
  { <<>>,
    << [uid |-> 1, title |-> T_Close_up, year |-> 2010, type |-> "movie",
        provider |-> NoProvider, id |-> NoString, status |-> "added", addedAt |-> 1],
       [uid |-> 2, title |-> T_La_haut, year |-> 2009, type |-> "movie",
        provider |-> "tmdb", id |-> ID_8, status |-> "pending", addedAt |-> NoTime],
       [uid |-> 3, title |-> T_Up, year |-> 2009, type |-> "show",
        provider |-> NoProvider, id |-> NoString, status |-> "pending", addedAt |-> NoTime] >> }

\* the failures buildGuidIndex may meet at the start of a cycle, and those a
\* checkIfInPlex call of the loop may meet: none, or every remote tier down
PrepareNets == { NoFailure, [NoFailure EXCEPT !.failPages = {<<"1", 0>>}] }
TiersDown ==
  [NoFailure EXCEPT
     !.tautFail = {<<k, b>> : k \in SectionKeys, b \in {"id", "title"}},
     !.searchFail = {"movie", "show"},
     !.scanFail = {<<k, y, 0>> : k \in SectionKeys, y \in {NoYear} \cup 2008..2012}]
ItemNets == { NoFailure, TiersDown }

\* `if (isScanning)` with the guard lost: every call is admitted
runAdmitsAlways(scanning) == TRUE

\* `if (isScanning) { ...; return {addedFilms: 0, addedShows: 0}; }`
runAdmits(scanning) == ~scanning

\* the entry carries a provider and an id
Carries(x) == x.provider # NoProvider /\ x.id # NoString

\* the predicate of data.entries.find, with the identifier branch lost
SelectsEntryByTitle(e, it) == e.title = it.title /\ e.type = it.type

\* the predicate of data.entries.find(e => ...)
SelectsEntry(e, it) ==
  IF Carries(e) /\ Carries(it) THEN e.provider = it.provider /\ e.id = it.id
  ELSE e.title = it.title /\ e.type = it.type

\* data.entries.find comparing titles only
FindExistingByTitle(es, it) ==
  LET hits == {i \in 1..Len(es) : es[i].title = it.title}
  IN IF hits = {} THEN 0 ELSE CHOOSE i \in hits : \A j \in hits : i <= j

\* data.entries.find: the position of the first entry selected, 0 for undefined
FindExisting(es, it) ==
  LET hits == {i \in 1..Len(es) : SelectsEntry(es[i], it)}
  IN IF hits = {} THEN 0 ELSE CHOOSE i \in hits : \A j \in hits : i <= j

\* the identity of a new object: one no tracked entry has
FreshUid(es) ==
  LET used == {es[i].uid : i \in 1..Len(es)} \cup {0}
  IN 1 + CHOOSE u \in used : \A v \in used : v <= u

\* `existing = { ... }` of the `if (!existing)` branch
NewEntry(it, res, t, uid) ==
  [uid |-> uid,
   title |-> IF res.found /\ res.plexTitle # NoString THEN res.plexTitle ELSE it.title,
   year |-> it.year,
   type |-> IF res.found /\ res.detectedType # "none" THEN res.detectedType ELSE it.type,
   provider |-> it.provider,
   id |-> it.id,
   status |-> IF res.found THEN "added" ELSE "pending",
   addedAt |-> IF res.found THEN t ELSE NoTime]

\* the `else` branch with the downgrade added -> pending lost
UpdateExistingNoDowngrade(im, e, it, res, t) ==
  LET typed == IF res.found /\ res.detectedType # "none" /\ e.type # res.detectedType
                 THEN [e EXCEPT !.type = res.detectedType]
               ELSE IF im = "legacy" /\ e.type # it.type THEN [e EXCEPT !.type = it.type]
               ELSE e
      titled == IF res.found /\ res.plexTitle # NoString /\ typed.title # res.plexTitle
                  THEN [typed EXCEPT !.title = res.plexTitle]
                ELSE typed
  IN IF res.found /\ titled.status # "added"
       THEN [titled EXCEPT !.status = "added", !.addedAt = t]
     ELSE titled

\* the `else` branch stamping addedAt at every turn that finds the item
UpdateExistingRestamps(im, e, it, res, t) ==
  LET typed == IF res.found /\ res.detectedType # "none" /\ e.type # res.detectedType
                 THEN [e EXCEPT !.type = res.detectedType]
               ELSE IF im = "legacy" /\ e.type # it.type THEN [e EXCEPT !.type = it.type]
               ELSE e
      titled == IF res.found /\ res.plexTitle # NoString /\ typed.title # res.plexTitle
                  THEN [typed EXCEPT !.title = res.plexTitle]
                ELSE typed
      upgraded == IF res.found
                    THEN [titled EXCEPT !.status = "added", !.addedAt = t]
                  ELSE titled
  IN IF ~res.found /\ upgraded.status = "added"
       THEN [upgraded EXCEPT !.status = "pending"]
     ELSE upgraded

\* the `else` branch: the updates of an existing entry. The legacy run() also
\* takes the feed's type when the library gave none.
UpdateExisting(im, e, it, res, t) ==
  LET typed == IF res.found /\ res.detectedType # "none" /\ e.type # res.detectedType
                 THEN [e EXCEPT !.type = res.detectedType]
               ELSE IF im = "legacy" /\ e.type # it.type THEN [e EXCEPT !.type = it.type]
               ELSE e
      titled == IF res.found /\ res.plexTitle # NoString /\ typed.title # res.plexTitle
                  THEN [typed EXCEPT !.title = res.plexTitle]
                ELSE typed
      upgraded == IF res.found /\ titled.status # "added"
                    THEN [titled EXCEPT !.status = "added", !.addedAt = t]
                  ELSE titled
  IN IF ~res.found /\ upgraded.status = "added"
       THEN [upgraded EXCEPT !.status = "pending"]
     ELSE upgraded

\* checkIfInPlex of the implementation that runs
Resolve(im, cfg, lib, gi, cache, scan, it, net) ==
  IF im = "guid"
    THEN LET c == checkIfInPlex(cfg, lib, gi, cache, it, net)
         IN [res |-> c.res, gi |-> c.gi, cache |-> c.cache, scan |-> scan]
  ELSE LET c == checkIfInPlexLegacy(cfg, lib, cache, scan, it, net)
       IN [res |-> c.res, gi |-> gi, cache |-> c.cache, scan |-> c.scan]

\* the cleanup's test with the title fallback lost: identifiers only
ExistsInRssByIdOnly(items, e) ==
  \E k \in 1..Len(items) :
    /\ Carries(items[k]) /\ Carries(e)
    /\ items[k].provider = e.provider /\ items[k].id = e.id

\* allItems.some(rssItem => ...) of the cleanup
ExistsInRss(items, e) ==
  \E k \in 1..Len(items) :
    IF Carries(items[k]) /\ Carries(e)
      THEN items[k].provider = e.provider /\ items[k].id = e.id
    ELSE items[k].title = e.title

\* the cleanup filter with the `status === 'added'` clause lost
KeptByCleanupNoHistory(items, e) == ExistsInRss(items, e)

\* the predicate of data.entries.filter(entry => ...) of the cleanup
KeptByCleanup(items, e) == e.status = "added" \/ ExistsInRss(items, e)

\* the notification guard letting a single new entry through only
ShouldNotifyOne(n) == n = 1

\* `addedThisScan.length > 0 && addedThisScan.length < 50`
ShouldNotify(n) == n > 0 /\ n < NotifyLimit

\* the tracked entry that is the object uid
EntryOf(es, uid) == SelectSeq(es, LAMBDA e : e.uid = uid)

\* the objects of addedThisScan, as they are when read
AddedObjects(es, added) ==
  LET Obj(u) == EntryOf(es, u)
      RECURSIVE Gather(_)
      Gather(q) == IF q = <<>> THEN <<>> ELSE Obj(Head(q)) \o Gather(Tail(q))
  IN Gather(added)

\* buildAddedEmbed(list): the entries listed under Movies and under Shows,
\* and the total; the rendering of a field is cut at 1024 characters
buildAddedEmbed(list) ==
  LET movies == SelectSeq(list, LAMBDA e : e.type = "movie")
      shows == SelectSeq(list, LAMBDA e : e.type = "show")
  IN [movies |-> [i \in 1..Len(movies) |-> movies[i].uid],
      shows |-> [i \in 1..Len(shows) |-> shows[i].uid],
      total |-> Len(list)]

\* data.entries.filter(e => e.status === 'pending')
PendingOf(es) ==
  LET pend == SelectSeq(es, LAMBDA e : e.status = "pending")
  IN [i \in 1..Len(pend) |-> pend[i].uid]

\* the counts run() returns
AddedCount(es, added, type) ==
  Len(SelectSeq(AddedObjects(es, added), LAMBDA e : e.type = type))

Zeros(call) == [call |-> call, addedFilms |-> 0, addedShows |-> 0]

\* the state of the module after index.js has loaded watchlist.json
Init ==
  /\ batch = NoBatch
  /\ impl \in {"guid", "legacy"}
  /\ config \in CycleConfigs
  /\ plex \in CycleLibraries
  /\ CheckerInit
  /\ isScanning = FALSE
  /\ pc = "idle"
  /\ now = 1
  /\ entries \in LoadedEntries
  /\ stateFile = entries
  /\ allItems = <<>>
  /\ fetched = NoFetch
  /\ pos = 0
  /\ addedThisScan = <<>>
  /\ becameAdded = <<>>
  /\ lastItem = NoItem
  /\ cycleClean = FALSE
  /\ channel = NoChannel
  /\ dropped = 0
  /\ ret = NoReturn

\* the library changes between two cycles
LibraryChange ==
  /\ pc = "idle"
  /\ now <= MaxCycles
  /\ plex' \in CycleLibraries \ {plex}
  /\ UNCHANGED <<impl, config, batch, checkerVars, cycleVars>>

\* run() called while a cycle is active: it returns at once
RunDropped ==
  /\ ~runAdmits(isScanning)
  /\ dropped < MaxDropped
  /\ dropped' = dropped + 1
  /\ ret' = Zeros("dropped")
  /\ UNCHANGED <<envVars, batch, checkerVars, isScanning, pc, now, entries, allItems, fetched, pos,
                 addedThisScan, becameAdded, lastItem, cycleClean, channel, stateFile>>

\* run() admitted, up to its first await: the flag, clearScanCache(), Date.now()
RunStart ==
  /\ runAdmits(isScanning)
  /\ now <= MaxCycles
  /\ isScanning' = TRUE
  /\ guidIndex' = clearScanCacheGuid.gi
  /\ sectionsCache' = NoCache
  /\ scanCache' = clearScanCacheLegacy.scan
  /\ now' = now + 1
  /\ pc' = "prepare"
  /\ allItems' = <<>>
  /\ fetched' = NoFetch
  /\ pos' = 0
  /\ addedThisScan' = <<>>
  /\ becameAdded' = <<>>
  /\ lastItem' = NoItem
  /\ cycleClean' = TRUE
  /\ channel' = NoChannel
  /\ UNCHANGED <<envVars, batch, lastBuild, lastCheck, entries, stateFile, dropped, ret>>

\* the return with the finally block lost: a failed cycle keeps the flag set
ReturnKeepsFlagOnFailure(r) ==
  /\ ret' = r
  /\ isScanning' = (r.call = "failed")
  /\ pc' = "idle"
  /\ allItems' = <<>>
  /\ fetched' = NoFetch
  /\ pos' = 0
  /\ addedThisScan' = <<>>
  /\ becameAdded' = <<>>
  /\ lastItem' = NoItem
  /\ cycleClean' = FALSE

\* the return of an admitted run(): its locals are gone, the flag is reset
Return(r) ==
  /\ ret' = r
  /\ isScanning' = FALSE
  /\ pc' = "idle"
  /\ allItems' = <<>>
  /\ fetched' = NoFetch
  /\ pos' = 0
  /\ addedThisScan' = <<>>
  /\ becameAdded' = <<>>
  /\ lastItem' = NoItem
  /\ cycleClean' = FALSE

\* getDiscordClient, buildGuidIndex (GUID-index implementation) and the feeds
Prepare ==
  /\ pc = "prepare"
  /\ \E f \in FeedFetches, net \in PrepareNets :
       \E b \in {buildGuidIndex(guidIndex, sectionsCache, config, plex, net)} :
          /\ guidIndex' = IF impl = "guid" THEN b.gi ELSE guidIndex
          /\ sectionsCache' = IF impl = "guid" THEN b.cache ELSE sectionsCache
          /\ fetched' = f
          /\ allItems' = FetchAll(f.sources, f.failed, 1)
          /\ cycleClean' = (impl = "guid" =>
                              b = buildGuidIndex(guidIndex, sectionsCache, config, plex, NoFailure))
  /\ pc' = "loop"
  /\ UNCHANGED <<envVars, batch, scanCache, lastBuild, lastCheck, isScanning, now, entries, pos,
                 addedThisScan, becameAdded, lastItem, channel, stateFile, dropped, ret>>

\* getDiscordClient throws: the catch block returns
PrepareFails ==
  /\ pc = "prepare"
  /\ Return(Zeros("failed"))
  /\ UNCHANGED <<envVars, batch, checkerVars, now, entries, channel, stateFile, dropped>>

\* one turn of `for (const it of allItems)`
ProcessItem ==
  /\ pc = "loop"
  /\ pos < Len(allItems)
  /\ \E net \in ItemNets :
      \E it \in {allItems[pos + 1]} :
       \E r \in {Resolve(impl, config, plex, guidIndex, sectionsCache, scanCache, it, net)} :
        \E k \in {FindExisting(entries, it)} :
         \E uid \in {IF k = 0 THEN FreshUid(entries) ELSE entries[k].uid} :
          \E after \in {IF k = 0 THEN NewEntry(it, r.res, now, uid)
                        ELSE UpdateExisting(impl, entries[k], it, r.res, now)} :
           \E before \in {IF k = 0 THEN "none" ELSE entries[k].status} :
             /\ guidIndex' = r.gi
             /\ sectionsCache' = r.cache
             /\ scanCache' = r.scan
             /\ entries' = IF k = 0 THEN Append(entries, after)
                           ELSE [entries EXCEPT ![k] = after]
             /\ addedThisScan' = IF r.res.found /\ before # "added"
                                   THEN Append(addedThisScan, uid) ELSE addedThisScan
             /\ becameAdded' = IF after.status = "added" /\ before # "added"
                                 THEN Append(becameAdded, uid) ELSE becameAdded
             /\ lastItem' = [valid |-> TRUE, uid |-> uid, found |-> r.res.found,
                             created |-> (k = 0), detectedType |-> r.res.detectedType,
                             before |-> before]
             /\ cycleClean' = (cycleClean /\ r = Resolve(impl, config, plex, guidIndex,
                                                         sectionsCache, scanCache, it, NoFailure))
  /\ pos' = pos + 1
  /\ UNCHANGED <<envVars, batch, lastBuild, lastCheck, isScanning, pc, now, allItems, fetched, channel,
                 stateFile, dropped, ret>>

\* the cleanup run before the loop has reached the end of allItems
CleanupEarly ==
  /\ pc = "loop"
  /\ entries' = SelectSeq(entries, LAMBDA e : KeptByCleanup(allItems, e))
  /\ pc' = "notifyAdded"
  /\ UNCHANGED <<envVars, batch, checkerVars, isScanning, now, allItems, fetched, pos, addedThisScan,
                 becameAdded, lastItem, cycleClean, channel, stateFile, dropped, ret>>

\* the cleanup after the loop
Cleanup ==
  /\ pc = "loop"
  /\ pos = Len(allItems)
  /\ entries' = SelectSeq(entries, LAMBDA e : KeptByCleanup(allItems, e))
  /\ pc' = "notifyAdded"
  /\ UNCHANGED <<envVars, batch, checkerVars, isScanning, now, allItems, fetched, pos, addedThisScan,
                 becameAdded, lastItem, cycleClean, channel, stateFile, dropped, ret>>

\* the newly-available notification is not attempted
NotifyAddedSkipped ==
  /\ pc = "notifyAdded"
  /\ ~ShouldNotify(Len(addedThisScan))
  /\ pc' = "notifyPending"
  /\ UNCHANGED <<envVars, batch, checkerVars, isScanning, now, entries, allItems, fetched, pos,
                 addedThisScan, becameAdded, lastItem, cycleClean, channel, stateFile, dropped, ret>>

\* the newly-available notification is built and sent
NotifyAddedSent ==
  /\ pc = "notifyAdded"
  /\ ShouldNotify(Len(addedThisScan))
  /\ channel' = [channel EXCEPT
                   !.added = buildAddedEmbed(AddedObjects(entries, addedThisScan)),
                   !.addedSent = "yes"]
  /\ pc' = "notifyPending"
  /\ UNCHANGED <<envVars, batch, checkerVars, isScanning, now, entries, allItems, fetched, pos,
                 addedThisScan, becameAdded, lastItem, cycleClean, stateFile, dropped, ret>>

\* the send fails: sendAddedMessage returns null and the cycle goes on; the
\* legacy `await ch.send(...)` throws and the catch block returns
NotifyAddedFails ==
  /\ pc = "notifyAdded"
  /\ ShouldNotify(Len(addedThisScan))
  /\ channel' = [channel EXCEPT
                   !.added = buildAddedEmbed(AddedObjects(entries, addedThisScan)),
                   !.addedSent = "failed"]
  /\ IF impl = "guid"
       THEN /\ pc' = "notifyPending"
            /\ UNCHANGED <<isScanning, allItems, fetched, pos, addedThisScan, becameAdded,
                           lastItem, cycleClean, ret>>
     ELSE Return(Zeros("failed"))
  /\ UNCHANGED <<envVars, batch, checkerVars, now, entries, stateFile, dropped>>

\* the pending snapshot: sendOrUpdateEmbed returns an id, or null
NotifyPending ==
  /\ pc = "notifyPending"
  /\ \E ok \in BOOLEAN :
       channel' = [channel EXCEPT !.pending = PendingOf(entries),
                                  !.pendingSent = IF ok THEN "yes" ELSE "failed"]
  /\ pc' = "save"
  /\ UNCHANGED <<envVars, batch, checkerVars, isScanning, now, entries, allItems, fetched, pos,
                 addedThisScan, becameAdded, lastItem, cycleClean, stateFile, dropped, ret>>

\* fs.writeFileSync and the return of the counts
SaveState ==
  /\ pc = "save"
  /\ stateFile' = entries
  /\ Return([call |-> "completed",
             addedFilms |-> AddedCount(entries, addedThisScan, "movie"),
             addedShows |-> AddedCount(entries, addedThisScan, "show")])
  /\ UNCHANGED <<envVars, batch, checkerVars, now, entries, channel, dropped>>

\* fs.writeFileSync throws: the catch block returns
SaveFails ==
  /\ pc = "save"
  /\ Return(Zeros("failed"))
  /\ UNCHANGED <<envVars, batch, checkerVars, now, entries, channel, stateFile, dropped>>

\* the checkIfInPlex call for the item makes a remote request: the legacy
\* implementation always searches; the GUID-index one does unless the index
\* answers or no tier other than the index applies
MakesRequest(it) ==
  \/ impl = "legacy"
  \/ \E t \in Range(checkIfInPlex(config, plex, guidIndex, sectionsCache, it, NoFailure).tiers) :
       t[1] # "index"

\* `await fetch(url, ...)` of node-fetch, called with no timeout and no abort
\* signal, on a server that never answers: the promise never settles and
\* run() stays at that await
RemoteCallHangs ==
  /\ \/ pc = "prepare" /\ impl = "guid"
     \/ pc = "loop" /\ pos < Len(allItems) /\ MakesRequest(allItems[pos + 1])
  /\ pc' = "hung"
  /\ UNCHANGED <<envVars, batch, checkerVars, isScanning, now, entries, allItems, fetched, pos,
                 addedThisScan, becameAdded, lastItem, cycleClean, channel, stateFile, dropped, ret>>

\* the continuation of an admitted run(): the event loop resumes it whenever
\* the promise it awaits has settled
CycleStep ==
  \/ Prepare
  \/ PrepareFails
  \/ ProcessItem
  \/ Cleanup
  \/ NotifyAddedSkipped
  \/ NotifyAddedSent
  \/ NotifyAddedFails
  \/ NotifyPending
  \/ SaveState
  \/ SaveFails

Next ==
  \/ LibraryChange
  \/ RunDropped
  \/ RunStart
  \/ Prepare
  \/ PrepareFails
  \/ ProcessItem
  \/ Cleanup
  \/ NotifyAddedSkipped
  \/ NotifyAddedSent
  \/ NotifyAddedFails
  \/ NotifyPending
  \/ SaveState
  \/ SaveFails
  \/ RemoteCallHangs

Spec == Init /\ [][Next]_vars

\* ------------------------------------------------------------------------
\* Properties of the scan cycle (Spec)
\* ------------------------------------------------------------------------

\* the identities of the tracked entries
Uids(es) == {es[i].uid : i \in 1..Len(es)}

\* C1: a run() call made while a cycle is active (a step that counts one more
\* call, admitted or dropped, with isScanning set) returns zero counts at once
\* and changes nothing else: no cache or index is cleared, no entry resolved
\* or changed, nothing sent, nothing written, and the active cycle stays
\* where it is.
C1_CallWhileScanningIsDropped ==
  [][(isScanning /\ (now' # now \/ dropped' # dropped)) =>
       /\ ret' = Zeros("dropped")
       /\ now' = now
       /\ UNCHANGED <<envVars, batch, checkerVars, isScanning, pc, entries, allItems, fetched, pos,
                      addedThisScan, becameAdded, lastItem, cycleClean, channel, stateFile>>]_vars

C1_Witness ==
  /\ dropped > 0
  /\ ret.call = "dropped"
  /\ isScanning
  /\ pc = "loop"
  /\ pos > 0
  /\ entries # <<>>

\* C2: once the loop has processed an item, the entry selected or created
\* for it is added if checkIfInPlex returned found=true and pending if it
\* returned found=false.
C2_StatusFollowsResolution ==
  (pc = "loop" /\ lastItem.valid) =>
    \E i \in 1..Len(entries) :
      /\ entries[i].uid = lastItem.uid
      /\ entries[i].status = IF lastItem.found THEN "added" ELSE "pending"

C2_Witness ==
  /\ pc = "loop"
  /\ lastItem.valid
  /\ lastItem.before = "added"
  /\ ~lastItem.found
  /\ \E i \in 1..Len(entries) :
       entries[i].uid = lastItem.uid /\ entries[i].status = "pending"

\* the item and the entry have the same identity: the same provider/id pair
\* when both carry one, otherwise the same title and type
SameIdentity(it, e) ==
  IF Carries(it) /\ Carries(e) THEN it.provider = e.provider /\ it.id = e.id
  ELSE it.title = e.title /\ it.type = e.type

\* C3: an entry leaves the tracked entries only in the cleanup of a cycle,
\* and only if it is not added and no item of the cycle's watchlist has its
\* identity.
C3_RemovedOnlyByCleanup ==
  [][\A i \in 1..Len(entries) :
       entries[i].uid \notin Uids(entries') =>
         /\ pc = "loop" /\ pos = Len(allItems) /\ pc' = "notifyAdded"
         /\ entries[i].status # "added"
         /\ \A k \in 1..Len(allItems) : ~SameIdentity(allItems[k], entries[i])]_vars

C3_Witness ==
  /\ pc = "notifyAdded"
  /\ allItems # <<>>
  /\ \E i \in 1..Len(stateFile) :
       /\ stateFile[i].status = "pending"
       /\ stateFile[i].uid \notin Uids(entries)
  /\ \E i \in 1..Len(entries) :
       /\ entries[i].status = "added"
       /\ ~ExistsInRss(allItems, entries[i])

\* C4: no two tracked entries carry the same (provider, id) pair.
C4_NoTwoEntriesShareAnIdentifier ==
  \A i, j \in 1..Len(entries) :
    (i # j /\ Carries(entries[i]) /\ Carries(entries[j])) =>
      ~(entries[i].provider = entries[j].provider /\ entries[i].id = entries[j].id)

C4_Witness ==
  /\ pc = "loop"
  /\ pos = 3
  /\ lastItem.valid
  /\ ~lastItem.created
  /\ Carries(allItems[pos])
  /\ allItems[pos] = allItems[1]
  /\ \E i \in 1..Len(entries) :
       /\ entries[i].uid = lastItem.uid
       /\ entries[i].title # allItems[pos].title
       /\ entries[i].provider = allItems[pos].provider
       /\ entries[i].id = allItems[pos].id

\* the entries the newly-available notification lists
Notified == Range(channel.added.movies) \cup Range(channel.added.shows)

\* C10 as stated: the cycle having passed its notification step with no send
\* failure, every entry created added or turned pending -> added in the cycle
\* is in a notification that was sent, whatever their number.
C10_EveryAddedEntryNotified ==
  (pc = "notifyPending" /\ channel.addedSent # "failed" /\ becameAdded # <<>>) =>
    /\ channel.addedSent = "yes"
    /\ Range(becameAdded) \subseteq Notified

\* C10 amended: when a cycle reaches its notification step with at least one
\* and fewer than NotifyLimit (50 in the code) entries created added or turned
\* pending -> added, all of them are in the list the notification is built
\* from and the send is attempted; with NotifyLimit or more, nothing is sent.
C10_AddedEntriesNotifiedBelowLimit ==
  pc = "notifyPending" =>
    /\ (Len(becameAdded) > 0 /\ Len(becameAdded) < NotifyLimit) =>
          /\ channel.addedSent \in {"yes", "failed"}
          /\ Range(becameAdded) \subseteq Notified
          /\ channel.added.total = Len(becameAdded)
    /\ Len(becameAdded) >= NotifyLimit =>
          /\ channel.addedSent = "no"
          /\ channel.added = NoEmbed

C10_Witness ==
  /\ pc = "notifyPending"
  /\ Len(becameAdded) = 2
  /\ channel.addedSent = "yes"
  /\ channel.added.movies # <<>>
  /\ channel.added.shows # <<>>
  /\ Range(becameAdded) \subseteq Notified

\* C11: once both notifications of a cycle have been delivered, no tracked
\* entry is in both: every entry listed as newly available is absent from the
\* pending snapshot.
C11_NotifiedEntriesAreNotPending ==
  (pc = "save" /\ channel.addedSent = "yes" /\ channel.pendingSent = "yes") =>
    Notified \cap Range(channel.pending) = {}

\* no tier finds the entry in the library as it is now, every request answered
Disappeared(e) ==
  ~Resolve(impl, config, plex, guidIndex, sectionsCache, scanCache, e, NoFailure).res.found

\* C12 as stated: when the loop and the cleanup of a cycle are done, no entry
\* that was added before the cycle and that no tier finds is still added.
C12_DisappearedEntryIsPending ==
  pc = "notifyAdded" =>
    \A i \in 1..Len(entries) :
      (entries[i].status = "added" /\ entries[i].addedAt < now) => ~Disappeared(entries[i])

\* C12 amended: an added entry that an item of the feed selects and that is
\* not found is pending once the item is processed, and no other entry
\* changes in that turn of the loop; the cleanup keeps every added entry and
\* every pending entry an item of the feed selects; no other step changes an
\* entry. An added entry no item selects is thus never resolved: it stays
\* added and is kept.
C12_DowngradedWhenSelectedAndKept ==
  [][/\ ((pc = "loop" /\ pos' = pos + 1) =>
           /\ ((lastItem'.before = "added" /\ ~lastItem'.found) =>
                 (\E i \in 1..Len(entries') :
                    entries'[i].uid = lastItem'.uid /\ entries'[i].status = "pending"))
           /\ (\A i \in 1..Len(entries) :
                 entries[i].uid # lastItem'.uid => entries'[i] = entries[i]))
      /\ ((pc = "loop" /\ pc' = "notifyAdded") =>
           (\A i \in 1..Len(entries) :
              (\/ entries[i].status = "added"
               \/ \E k \in 1..Len(allItems) : SelectsEntry(entries[i], allItems[k]))
                => (\E j \in 1..Len(entries') : entries'[j] = entries[i])))
      /\ ((~(pc = "loop" /\ pos' = pos + 1) /\ ~(pc = "loop" /\ pc' = "notifyAdded"))
            => entries' = entries)]_vars

C12_Witness ==
  /\ pc = "notifyAdded"
  /\ lastItem.valid /\ lastItem.before = "added" /\ ~lastItem.found
  /\ \E i \in 1..Len(entries) :
       /\ entries[i].uid = lastItem.uid
       /\ entries[i].status = "pending"
       /\ entries[i].addedAt # NoTime
  /\ \E i \in 1..Len(entries) :
       /\ entries[i].status = "added"
       /\ entries[i].addedAt < now
       /\ Disappeared(entries[i])
       /\ \A k \in 1..Len(allItems) : ~SelectsEntry(entries[i], allItems[k])

\* C13: a checkIfInPlex call that met failed requests still returns a result
\* object; the tiers after the failing one are attempted as if that tier had
\* found nothing, and with no tier finding the entry the result is
\* {found: false, plexTitle: null, detectedType: null} after the whole
\* sequence of the implementation has been attempted.
C13_FailedTierIsSkipped ==
  (lastCheck.valid /\ ~lastCheck.clean) =>
    /\ lastCheck.res.found \in BOOLEAN
    /\ lastCheck.res.found =>
          /\ lastCheck.res.plexTitle # NoString
          /\ lastCheck.res.detectedType \in {"movie", "show"}
          /\ IsPrefix(lastCheck.tiers, FullSequence(lastCheck.e))
    /\ ~lastCheck.res.found =>
          /\ lastCheck.res = NotFound
          /\ lastCheck.tiers = FullSequence(lastCheck.e)

C13_Witness ==
  /\ lastCheck.valid
  /\ impl = "guid"
  /\ config.tautulli
  /\ lastCheck.e.id = NoString
  /\ "tautulli" \in lastCheck.failed
  /\ lastCheck.by = "search"
  /\ lastCheck.res.found

\* C14: a cycle that is active is never stuck: whatever its remote calls do,
\* the admitted run() can take its next step (and so comes to the return that
\* releases isScanning).
C14_ActiveCycleCanProceed == isScanning => ENABLED CycleStep

\* C15: every return of an admitted run(), after a completed cycle or after
\* an exception at any step, leaves isScanning false, so that a run() call
\* made when no cycle is running is admitted and never dropped; a dropped
\* call leaves isScanning as it is.
C15_ReturnResetsTheFlag ==
  [][/\ ((pc # "idle" /\ pc' = "idle") =>
           (~isScanning' /\ ret'.call \in {"completed", "failed"}))
      /\ (pc' = "idle" => ~isScanning')
      /\ ((pc = "idle" /\ (now' # now \/ dropped' # dropped)) =>
           (isScanning' /\ pc' = "prepare" /\ dropped' = dropped))
      /\ (dropped' # dropped => isScanning' = isScanning)]_vars

C15_Witness ==
  /\ pc = "prepare"
  /\ isScanning
  /\ now = 3
  /\ ret.call = "failed"
  /\ entries # stateFile
  /\ dropped > 0

\* C16: the steps of a cycle happen in one order: the caches and the index
\* are cleared when the cycle starts; the index is built (GUID-index
\* implementation) before the loop starts at the first item; the loop takes
\* the items one by one and the cleanup comes only after the last one; then
\* the newly-available notification, the pending snapshot and the write.
\* The state file changes only in the last step of a cycle, to the whole of
\* data.entries, and the notifications only in their two steps.
C16_StepsInOrder ==
  [][/\ ((pc = "idle" /\ pc' # "idle") =>
           /\ pc' = "prepare"
           /\ guidIndex' = EmptyIndex /\ sectionsCache' = NoCache /\ scanCache' = EmptyMap)
      /\ ((pc = "prepare" /\ pc' # "prepare") =>
           /\ pc' \in {"loop", "idle", "hung"}
           /\ (pc' = "loop" => (pos' = 0 /\ (impl = "guid" => guidIndex'.loaded))))
      /\ ((pc = "loop" /\ pc' = "loop" /\ pos' # pos) =>
           (pos' = pos + 1 /\ lastItem'.valid /\ (impl = "guid" => guidIndex'.loaded)))
      /\ ((pc = "loop" /\ pc' # "loop") =>
           (pc' = "hung" \/ (pc' = "notifyAdded" /\ pos = Len(allItems))))
      /\ ((pc = "notifyAdded" /\ pc' # "notifyAdded") => pc' \in {"notifyPending", "idle"})
      /\ ((pc = "notifyPending" /\ pc' # "notifyPending") => pc' = "save")
      /\ ((pc = "save" /\ pc' # "save") => pc' = "idle")
      /\ (pc = "hung" => pc' = "hung")
      /\ (stateFile' # stateFile =>
           (pc = "save" /\ pc' = "idle" /\ pos = Len(allItems) /\ stateFile' = entries))
      /\ (channel' # channel =>
           (pc \in {"notifyAdded", "notifyPending"} \/ (pc = "idle" /\ channel' = NoChannel)))]_vars

C16_Witness ==
  /\ pc = "idle"
  /\ impl = "guid"
  /\ ret.call = "completed"
  /\ stateFile = entries
  /\ Len(stateFile) >= 2
  /\ guidIndex.loaded
  /\ channel.addedSent = "yes"
  /\ channel.pendingSent = "yes"
  /\ now = 3

\* C17: nothing is sent before the notification step of a cycle, and once the
\* two notification steps of a cycle with newly available entries are past,
\* the newly-available notification and the pending snapshot were either
\* both delivered or both not.
C17_NotificationsBothOrNeither ==
  /\ pc \in {"prepare", "loop", "notifyAdded", "hung"} => channel = NoChannel
  /\ (pc = "save" /\ addedThisScan # <<>>) =>
       (channel.addedSent = "yes" <=> channel.pendingSent = "yes")

\* C18: within one cycle, a buildGuidIndex call that finds the index loaded
\* (a direct call, or the one checkIfInPlex makes) returns it as it is: the
\* three tables and itemCount are unchanged and the call makes no
\* section-listing request and no page request.
C18_SecondBuildReturnsTheIndex ==
  [][ (guidIndex.loaded /\ guidIndex'.loaded) =>
        /\ guidIndex' = guidIndex
        /\ (lastBuild' # lastBuild) =>
             (/\ lastBuild'.called
              /\ ~lastBuild'.built
              /\ lastBuild'.pages = <<>>
              /\ lastBuild'.sectionRequests = 0
              /\ sectionsCache' = sectionsCache)
        /\ (lastCheck' # lastCheck) => (lastCheck'.pages = <<>>) ]_vars

\* C18 witness: a direct buildGuidIndex call has met a loaded index that
\* holds items
C18_Witness ==
  /\ impl = "guid"
  /\ guidIndex.loaded
  /\ guidIndex.itemCount > 0
  /\ lastBuild.called
  /\ ~lastBuild.built
  /\ lastBuild.pages = <<>>

\* the items of the pages the last build was answered with:
\* <<section id, item>>
IndexedItems ==
  UNION { { <<pg[1], it>> : it \in Range(ServerPage(plex, pg[1], pg[2], PageSize)) } :
          pg \in Range(lastBuild.pages) \ lastBuild.failedPages }

\* C19: a page request that fails during buildGuidIndex ends the enumeration
\* of its section (no later request to that section, no request made twice),
\* every other kept section is still enumerated from its first page, the
\* items of the pages that were answered are counted and can be looked up
\* by their imdb://, tmdb:// and tvdb:// identifiers, and the index ends
\* loaded.
C19_FailedPageStopsItsSectionOnly ==
  (impl = "guid" /\ lastBuild.built) =>
    /\ guidIndex.loaded
    /\ \A i, j \in 1..Len(lastBuild.pages) :
         /\ (i # j) => (lastBuild.pages[i] # lastBuild.pages[j])
         /\ (lastBuild.pages[i] \in lastBuild.failedPages /\ j > i) =>
              (lastBuild.pages[j][1] # lastBuild.pages[i][1])
    /\ (~lastBuild.sectionsFailed) =>
         (\A sec \in Range(KeptSections) : <<sec.key, 0>> \in Range(lastBuild.pages))
    /\ \A pg \in Range(lastBuild.pages) \ lastBuild.failedPages :
         (Len(ServerPage(plex, pg[1], pg[2], PageSize)) = PageSize) =>
           (<<pg[1], pg[2] + PageSize>> \in Range(lastBuild.pages))
    /\ guidIndex.itemCount = Cardinality(IndexedItems)
    /\ \A t \in IndexedItems : \A g \in Range(t[2].Guid) :
         (GuidProvider(g) # NoProvider /\ ~StartsWith(g, THETVDB_SCHEME)) =>
           (lookupByGuid(guidIndex, GuidProvider(g), GuidId(g)) # NoEntry)

\* C19 witness: the second page of the first section failed after its first
\* page was indexed, and the second section was enumerated all the same
C19_Witness ==
  /\ impl = "guid"
  /\ lastBuild.built
  /\ guidIndex.loaded
  /\ lastBuild.failedPages = {<<"1", PageSize>>}
  /\ <<"2", 0>> \in Range(lastBuild.pages)
  /\ guidIndex.itemCount > PageSize
  /\ lookupByGuid(guidIndex, "imdb", ID_tt1) # NoEntry

\* the scan-cache keys of the enumeration requests of a call
RequestedKeys(pages) == { <<pg[1], pg[2]>> : pg \in Range(pages) }

SectionType(key) ==
  (CHOOSE sec \in Range(ServerSections) : sec.key = key).type

\* the position of the method in the trace of a call, 0 when it did not run
TierPosition(tiers, t) ==
  IF \E i \in 1..Len(tiers) : tiers[i] = t
    THEN CHOOSE i \in 1..Len(tiers) : tiers[i] = t
  ELSE 0

\* C21: in the legacy resolver a pass runs its year-window scan and its
\* whole-section scan only for an entry with an external id, only when
\* Tautulli did not resolve the entry and after the title search of the pass
\* did not; a year-window request asks for a year of {year-1, year, year+1}
\* and every enumeration request goes to a section of the type of a pass that
\* ran that scan.
C21_ScansOnlyWithIdAfterSearch ==
  (impl = "legacy" /\ lastCheck.valid) =>
    /\ \A t \in {"movie", "show"} : \A scan \in {"yearscan", "fullscan"} :
         (TierPosition(lastCheck.tiers, <<scan, t>>) # 0) =>
           /\ lastCheck.e.id # NoString
           /\ (scan = "yearscan") => (lastCheck.e.year # NoYear)
           /\ lastCheck.by # "tautulli"
           /\ TierPosition(lastCheck.tiers, <<"search", t>>) # 0
           /\ TierPosition(lastCheck.tiers, <<"search", t>>)
                < TierPosition(lastCheck.tiers, <<scan, t>>)
           /\ ~(lastCheck.by = "search" /\ lastCheck.res.detectedType = t)
    /\ \A pg \in Range(lastCheck.pages) :
         /\ (pg[2] # NoYear) =>
              /\ pg[2] \in {lastCheck.e.year - 1, lastCheck.e.year, lastCheck.e.year + 1}
              /\ TierPosition(lastCheck.tiers, <<"yearscan", SectionType(pg[1])>>) # 0
         /\ (pg[2] = NoYear) =>
              (TierPosition(lastCheck.tiers, <<"fullscan", SectionType(pg[1])>>) # 0)
    /\ (lastCheck.e.id = NoString) => (lastCheck.pages = <<>>)

\* C21 witness: an entry with an id and a year that neither title search
\* resolved went through both scans of both types, with year-window requests
\* and whole-section requests
C21_Witness ==
  /\ impl = "legacy"
  /\ lastCheck.valid
  /\ lastCheck.e.id # NoString
  /\ lastCheck.e.year # NoYear
  /\ ~lastCheck.res.found
  /\ TierPosition(lastCheck.tiers, <<"fullscan", "movie">>) # 0
  /\ TierPosition(lastCheck.tiers, <<"fullscan", "show">>) # 0
  /\ \E pg \in Range(lastCheck.pages) : pg[2] = lastCheck.e.year + 1
  /\ \E pg \in Range(lastCheck.pages) : pg[2] = NoYear /\ SectionType(pg[1]) = "show"

\* C22: lookupByGuid answers with the item stored under the id in the table
\* of the provider when the provider is imdb, tmdb or tvdb, and with the item
\* stored under the id in the imdb table when the provider is none of them
\* and the id begins with 'tt'.
C22_LookupInProviderTable ==
  (impl = "guid" /\ lastCheck.valid) =>
    /\ (lastCheck.e.provider \in Providers) =>
         (lastCheck.indexedKey
            = MapGet(guidIndex[lastCheck.e.provider], lastCheck.e.id).ratingKey)
    /\ (lastCheck.e.provider \notin Providers /\ StartsWith(lastCheck.e.id, TT)) =>
         (lastCheck.indexedKey = MapGet(guidIndex.imdb, lastCheck.e.id).ratingKey)

\* C23: a turn of the loop creates a tracked entry exactly when
\* data.entries.find selects none, and a watchlist item that has the identity
\* of an item the loop has already seen in this cycle (the same provider and
\* id when both carry them, else the same title and type) creates none.
C23_SameIdentityYieldsOneEntry ==
  [][ (pc = "loop" /\ pos' = pos + 1) =>
        /\ (Len(entries') = Len(entries) + 1) <=> (FindExisting(entries, allItems[pos']) = 0)
        /\ (\E i \in 1..pos : SelectsEntry(allItems[i], allItems[pos'])) =>
             (Len(entries') = Len(entries)) ]_vars

\* year compatibility as claimed: a year absent, or the years at most 1 apart
YearCompatible(year, candidateYear) ==
  year = NoYear \/ candidateYear = NoYear \/ Abs(year - candidateYear) <= 1

\* the Tautulli rows of the kept sections whose title passes the title test
\* of checkViaTautulli and whose year is compatible as claimed
CompatibleRows(e) ==
  UNION { { row \in Range(TautulliRows(plex, sec.key, e.title)) :
              TautulliTitleMatch(e.title, row.title) /\ YearCompatible(e.year, row.year) } :
          sec \in Range(KeptSections) }

\* the items of the type the title search returns whose title passes the
\* title test of searchByTitle and whose year is compatible as claimed
CompatibleItems(e, type) ==
  { it \in Range(ServerSearch(plex, e.title, type)) :
      SearchTitleMatch(e.title, it.title) /\ YearCompatible(e.year, it.year) }

\* C24: in the tiers that compare years a candidate is year-compatible
\* exactly when a year is absent or the years are at most 1 apart: with no
\* request failing, an entry without id is resolved by the title branch of
\* Tautulli exactly when a row with a matching title is year-compatible, and
\* a title search that resolved nothing had no matching item that is
\* year-compatible.
C24_YearCompatibleWithinOne ==
  (impl = "guid" /\ lastCheck.valid /\ lastCheck.clean /\ lastCheck.e.id = NoString) =>
    /\ config.tautulli =>
         ((lastCheck.by = "tautulli") <=> (CompatibleRows(lastCheck.e) # {}))
    /\ \A t \in {"movie", "show"} :
         (/\ TierPosition(lastCheck.tiers, <<"search", t>>) # 0
          /\ ~(lastCheck.by = "search" /\ lastCheck.res.detectedType = t)) =>
           (CompatibleItems(lastCheck.e, t) = {})

\* title equivalence as claimed: the normalized forms equal, or one the first
\* word of the other and at least 8 characters long
TitleEquivalent(a, b) ==
  \/ normalize(a) = normalize(b)
  \/ (normalize(a) = FirstWord(normalize(b)) /\ Len(normalize(a)) >= 8)
  \/ (normalize(b) = FirstWord(normalize(a)) /\ Len(normalize(b)) >= 8)

\* C25: in the tiers that compare titles two titles are equivalent exactly
\* when their normalized forms are equal or one is the first word of the
\* other and at least 8 characters long: an entry resolved by the title
\* branch of Tautulli or by the title search has a title equivalent to the
\* library title it was resolved to ('Up' is never resolved to 'Up in the
\* Air').
C25_TitleMatchIsEquivalence ==
  (/\ impl = "guid"
   /\ lastCheck.valid
   /\ lastCheck.e.id = NoString
   /\ lastCheck.by \in {"tautulli", "search"}) =>
    TitleEquivalent(lastCheck.e.title, lastCheck.res.plexTitle)

\* ------------------------------------------------------------------------
\* checkBatch(items, config, concurrency)
\* ------------------------------------------------------------------------

\* the largest `concurrency` a call is made with
MaxConcurrency == 2

\* the item lists checkBatch is called with
BatchInputs ==
  { <<>>,
    <<W_up>>,
    <<W_CloseUp, W_up, W_Air>>,
    <<W_UpNoId, W_UpShow, W_CloseUp, W_up>> }

InitBatch ==
  /\ impl = "guid"
  /\ config \in CycleConfigs
  /\ plex \in CycleLibraries
  /\ CheckerInit
  /\ CycleInit
  /\ batch = NoBatch

\* items.slice(i, i + concurrency), as positions of the list
Chunk(items, i, concurrency) ==
  { k \in 1..Len(items) : k > i /\ k <= i + concurrency }

\* results.set(item, result) for the promises of the chunk
SetResults(results, settled) ==
  [k \in (DOMAIN results) \cup (DOMAIN settled) |->
     IF k \in DOMAIN settled THEN settled[k] ELSE results[k]]

\* buildGuidIndex for a caller that passed `if (guidIndex.loaded)` while the
\* index was not loaded: its enumeration adds to what the tables and
\* itemCount hold when it runs
buildAfterGuard(gi, cache, cfg, lib, net) ==
  buildGuidIndex([gi EXCEPT !.loaded = FALSE], cache, cfg, lib, net)

\* the call with `if (!guidIndex.loaded) await buildGuidIndex(config)` lost
BatchCallNoIndex ==
  /\ batch.pc = "idle"
  /\ \E items \in BatchInputs, concurrency \in 0..MaxConcurrency :
       batch' = [NoBatch EXCEPT !.pc = "loop", !.items = items,
                                !.concurrency = concurrency]
  /\ UNCHANGED <<envVars, checkerVars, cycleVars>>

\* the call, up to the loop: `if (!guidIndex.loaded) await buildGuidIndex(config)`
BatchCall ==
  /\ batch.pc = "idle"
  /\ \E items \in BatchInputs, concurrency \in 0..MaxConcurrency, net \in PrepareNets :
       \E b \in {buildGuidIndex(guidIndex, sectionsCache, config, plex, net)} :
          /\ guidIndex' = b.gi
          /\ sectionsCache' = b.cache
          /\ lastBuild' = BuildRecord(b, lastBuild, net)
          /\ batch' = [NoBatch EXCEPT !.pc = "loop", !.items = items,
                                      !.concurrency = concurrency,
                                      !.builds = IF b.built THEN 1 ELSE 0]
  /\ UNCHANGED <<envVars, scanCache, lastCheck, cycleVars>>

\* `chunk.map(async (item) => ...)`: the resolutions of the chunk start; each
\* runs up to its first await, so each tests `if (!guidIndex.loaded)` before
\* any of them goes on, and enters buildGuidIndex when the index is not loaded
BatchStartChunk ==
  /\ batch.pc = "loop"
  /\ batch.i < Len(batch.items)
  /\ batch' = [batch EXCEPT
                 !.pc = "await",
                 !.inFlight = @ \cup Chunk(batch.items, batch.i, batch.concurrency),
                 !.building = IF guidIndex.loaded THEN {}
                              ELSE Chunk(batch.items, batch.i, batch.concurrency),
                 !.builds = IF guidIndex.loaded THEN @
                            ELSE @ + Cardinality(Chunk(batch.items, batch.i, batch.concurrency))]
  /\ UNCHANGED <<envVars, checkerVars, cycleVars>>

\* one checkIfInPlex of the chunk completes; the resolutions in flight
\* complete in any order
BatchResolve ==
  /\ batch.inFlight # {}
  /\ \E k \in batch.inFlight, net \in ItemNets :
       \E c \in {IF k \in batch.building
                   THEN CheckWithIndex(config, plex, batch.items[k], net,
                          buildAfterGuard(guidIndex, sectionsCache, config, plex, net))
                 ELSE checkIfInPlex(config, plex, guidIndex, sectionsCache,
                                    batch.items[k], net)} :
          /\ guidIndex' = c.gi
          /\ sectionsCache' = c.cache
          /\ batch' = [batch EXCEPT !.inFlight = @ \ {k},
                                    !.building = @ \ {k},
                                    !.settled = MapSet(@, k, c.res)]
  /\ UNCHANGED <<envVars, scanCache, lastBuild, lastCheck, cycleVars>>

\* the turn of the loop going on with promises of the chunk unsettled
BatchChunkDoneEarly ==
  /\ batch.pc = "await"
  /\ batch' = [batch EXCEPT !.pc = "loop",
                            !.results = SetResults(@, batch.settled),
                            !.settled = EmptyMap,
                            !.i = @ + batch.concurrency]
  /\ UNCHANGED <<envVars, checkerVars, cycleVars>>

\* `await Promise.all(promises)` answers, the results are set, `i += concurrency`
BatchChunkDone ==
  /\ batch.pc = "await"
  /\ batch.inFlight = {}
  /\ batch' = [batch EXCEPT !.pc = "loop",
                            !.results = SetResults(@, batch.settled),
                            !.settled = EmptyMap,
                            !.i = @ + batch.concurrency]
  /\ UNCHANGED <<envVars, checkerVars, cycleVars>>

\* `return results`
BatchReturn ==
  /\ batch.pc = "loop"
  /\ batch.i >= Len(batch.items)
  /\ batch' = [batch EXCEPT !.pc = "done"]
  /\ UNCHANGED <<envVars, checkerVars, cycleVars>>

NextBatch ==
  \/ BatchCall
  \/ BatchStartChunk
  \/ BatchResolve
  \/ BatchChunkDone
  \/ BatchReturn

SpecBatch == InitBatch /\ [][NextBatch]_vars

\* what the claim says of a checkBatch call under way or returned
BatchAsClaimed ==
  /\ guidIndex.loaded
  /\ Cardinality(batch.inFlight) <= batch.concurrency
  /\ batch.inFlight \cup DOMAIN batch.settled
       \subseteq Chunk(batch.items, batch.i, batch.concurrency)
  /\ (batch.inFlight # {}) => (\A k \in 1..batch.i : k \in DOMAIN batch.results)
  /\ DOMAIN batch.results = { k \in 1..Len(batch.items) : k <= batch.i }
  /\ (batch.pc = "loop" /\ batch.i < Len(batch.items)) =>
       (Chunk(batch.items, batch.i, batch.concurrency) # {})
  /\ (batch.pc = "done") =>
       /\ DOMAIN batch.results = 1..Len(batch.items)
       /\ \A k \in DOMAIN batch.results : batch.results[k].found \in BOOLEAN

LoopTurn(im, acc, it, r, k, t) ==
  [entries |-> IF k = 0
                 THEN Append(acc.entries, NewEntry(it, r.res, t, FreshUid(acc.entries)))
               ELSE [acc.entries EXCEPT ![k] = UpdateExisting(im, acc.entries[k], it, r.res, t)],
   added |-> IF r.res.found /\ (k = 0 \/ acc.entries[k].status # "added")
               THEN Append(acc.added, IF k = 0 THEN FreshUid(acc.entries) ELSE acc.entries[k].uid)
             ELSE acc.added,
   gi |-> r.gi, cache |-> r.cache, scan |-> r.scan]

\* the loop from item k on
RECURSIVE LoopTurns(_, _, _, _, _, _, _)
LoopTurns(im, cfg, lib, acc, items, k, t) ==
  IF k > Len(items) THEN acc
  ELSE LoopTurns(im, cfg, lib,
                 LoopTurn(im, acc, items[k],
                          Resolve(im, cfg, lib, acc.gi, acc.cache, acc.scan, items[k], NoFailure),
                          FindExisting(acc.entries, items[k]), t),
                 items, k + 1, t)

\* the state the loop starts from: clearScanCache(), then buildGuidIndex in
\* the GUID-index implementation
LoopStart(im, b, es) ==
  [entries |-> es, added |-> <<>>,
   gi |-> IF im = "guid" THEN b.gi ELSE clearScanCacheGuid.gi,
   cache |-> IF im = "guid" THEN b.cache ELSE NoCache,
   scan |-> clearScanCacheLegacy.scan]

\* the entries kept and the entries reported by the cycle
CycleOutcome(items, acc) ==
  [entries |-> SelectSeq(acc.entries, LAMBDA e : KeptByCleanup(items, e)),
   added |-> acc.added]

\* run() with no remote failure: cache reset, index, loop, cleanup
RunWithoutFailure(im, cfg, lib, es, items, t) ==
  CycleOutcome(items,
    LoopTurns(im, cfg, lib,
              LoopStart(im, buildGuidIndex(clearScanCacheGuid.gi, NoCache, cfg, lib, NoFailure), es),
              items, 1, t))

\* the cycle that follows the present one with the same watchlist and the
\* same library
FollowingCycle == RunWithoutFailure(impl, config, plex, entries, allItems, now + 1)

\* a turn of the loop in which no request fails changes the state as LoopTurn does
TurnIsLoopTurn ==
  [][ (pc = "loop" /\ pos' = pos + 1 /\ cycleClean') =>
        LET it == allItems[pos']
            a == LoopTurn(impl, [entries |-> entries, added |-> addedThisScan, gi |-> guidIndex,
                                 cache |-> sectionsCache, scan |-> scanCache], it,
                          Resolve(impl, config, plex, guidIndex, sectionsCache, scanCache, it, NoFailure),
                          FindExisting(entries, it), now)
        IN /\ entries' = a.entries /\ addedThisScan' = a.added
           /\ guidIndex' = a.gi /\ sectionsCache' = a.cache /\ scanCache' = a.scan ]_vars

\* C28: when a cycle in which no remote request failed and every feed loaded
\* has run up to the write of the state file, a second cycle with the same
\* watchlist, the same library and no remote failure leaves the tracked
\* entries as they are (none created, none removed, no status, title or type
\* changed) and reports no entry as newly available
C28_SecondCycleChangesNothing ==
  (pc = "save" /\ cycleClean /\ fetched.failed = {}) =>
     /\ FollowingCycle.entries = entries
     /\ FollowingCycle.added = <<>>


\* the entry with this uid has status added after the following cycle
StaysAdded(uid) ==
  \E i \in 1..Len(FollowingCycle.entries) :
    FollowingCycle.entries[i].uid = uid /\ FollowingCycle.entries[i].status = "added"

\* C29: when the send of the newly-available notification fails, every entry
\* that became added in the cycle and still has status added after the
\* following cycle (same watchlist, same library, no remote failure) is
\* reported as newly available by that following cycle
C29_UndeliveredIsReportedLater ==
  [][ (pc = "notifyAdded" /\ channel'.addedSent = "failed") =>
        \A i \in 1..Len(becameAdded) :
          StaysAdded(becameAdded[i]) => becameAdded[i] \in Range(FollowingCycle.added) ]_vars


\* the deduplication identity of data.entries.find between an entry and an
\* item of the watchlist
MatchesSomeItem(items, e) == \E k \in 1..Len(items) : SelectsEntry(e, items[k])

\* C30: at the end of a cycle no tracked entry with status pending is left
\* that matches no item of the cycle's watchlist under the deduplication
\* identity (provider/id pair when both carry one, otherwise title and type)
C30_UnlistedPendingIsRemoved ==
  (pc \in {"notifyAdded", "notifyPending", "save"}) =>
     \A i \in 1..Len(entries) :
        entries[i].status = "pending" => MatchesSomeItem(allItems, entries[i])


\* the test of the cleanup between one item and one entry
CleanupMatch(it, e) ==
  IF Carries(it) /\ Carries(e) THEN it.provider = e.provider /\ it.id = e.id
  ELSE it.title = e.title

\* some item of a feed that loaded matches the entry
MatchedByRemainingFeeds(f, e) ==
  \E k \in (1..Len(f.sources)) \ f.failed :
    \E j \in 1..Len(f.sources[k]) : CleanupMatch(f.sources[k][j], e)

\* some item of a feed that failed to load matches the entry
MatchedByFailedFeed(f, e) ==
  \E k \in f.failed : \E j \in 1..Len(f.sources[k]) : CleanupMatch(f.sources[k][j], e)

LoadedEmpty(gi) ==
  /\ gi.loaded
  /\ gi.itemCount = 0
  /\ gi.imdb = EmptyMap /\ gi.tmdb = EmptyMap /\ gi.tvdb = EmptyMap

\* C32: a buildGuidIndex call whose section listing fails leaves the index
\* marked loaded with no items and the section list not cached; an index
\* loaded with no items stays as it is under every call but clearScanCache
\* (no page is requested for it again), and every lookup in it misses
C32_FailedListingLeavesEmptyIndex ==
  [][ /\ (lastBuild' # lastBuild /\ lastBuild'.built /\ lastBuild'.sectionsFailed) =>
           (LoadedEmpty(guidIndex') /\ ~sectionsCache'.set /\ lastBuild'.pages = <<>>)
      /\ (LoadedEmpty(guidIndex) /\ guidIndex'.loaded) =>
           /\ guidIndex' = guidIndex
           /\ (lastBuild' # lastBuild) => (~lastBuild'.built /\ lastBuild'.pages = <<>>)
           /\ (lastCheck' # lastCheck) =>
                (/\ lastCheck'.pages = <<>>
                 /\ lastCheck'.by # "index"
                 /\ lastCheck'.indexedKey = 0
                 /\ lookupByGuid(guidIndex', lastCheck'.e.provider, lastCheck'.e.id) = NoEntry)
    ]_vars

\* C32 witness: the section listing failed when the index was built, the
\* library holds the film with imdb id tt1, and a later checkIfInPlex call
\* for that id found the index loaded and did not resolve by it
C32_Witness ==
  /\ impl = "guid"
  /\ lastBuild.built /\ lastBuild.sectionsFailed
  /\ LoadedEmpty(guidIndex)
  /\ \E i \in 1..Len(plex["1"]) : plex["1"][i] = ItemUp
  /\ lastCheck.valid /\ lastCheck.loadedBefore
  /\ lastCheck.e.provider = "imdb" /\ lastCheck.e.id = ID_tt1
  /\ lastCheck.by # "index"


\* every item the server holds under a scan-cache key: the items of the
\* section with the key's year, or the whole section for the ALL key
CompleteEnumeration(lib, key) ==
  IF key[2] = NoYear THEN lib[key[1]]
  ELSE SelectSeq(lib[key[1]], LAMBDA it : it.year = key[2])

\* C33: every list in the scan cache is the complete enumeration of its
\* section/year, or of its whole section
C33_CachedListsAreComplete ==
  \A key \in DOMAIN scanCache : scanCache[key] = CompleteEnumeration(plex, key)


\* the page requests of a whole enumeration of the kept sections: offsets 0,
\* PageSize, 2 * PageSize, ... up to the first page that is not full
WholePages ==
  UNION { { <<sec.key, k * PageSize>> : k \in 0..(Len(plex[sec.key]) \div PageSize) } :
          sec \in Range(KeptSections) }

\* the number of items of the kept sections
RECURSIVE CountItems(_)
CountItems(secs) ==
  IF secs = <<>> THEN 0 ELSE Len(plex[Head(secs).key]) + CountItems(Tail(secs))

\* the last build met no failure, asked each section for exactly the pages of
\* its whole enumeration, each once, and counted every item once
BuildPaginates ==
  (impl = "guid" /\ lastBuild.built /\ ~lastBuild.indexFailed) =>
    /\ Range(lastBuild.pages) = WholePages
    /\ Len(lastBuild.pages) = Cardinality(WholePages)
    /\ \A i, j \in 1..Len(lastBuild.pages) :
         (i < j /\ lastBuild.pages[i][1] = lastBuild.pages[j][1]) =>
            lastBuild.pages[i][2] < lastBuild.pages[j][2]
    /\ guidIndex.loaded
    /\ guidIndex.itemCount = CountItems(KeptSections)

\* the table of the provider holds the id as a key
Recorded(gi, provider, id) ==
  CASE provider = "imdb" -> id \in DOMAIN gi.imdb
    [] provider = "tmdb" -> id \in DOMAIN gi.tmdb
    [] provider = "tvdb" -> id \in DOMAIN gi.tvdb
    [] OTHER -> FALSE

\* C34: with no request failure, buildGuidIndex asks each section for its
\* pages at offsets 0, PageSize, ... up to the first page that is not full,
\* counts every item once (itemCount is the number of items, those without
\* an identifier included) and records every imdb / tmdb / tvdb identifier
\* of every item
C34_BuildVisitsAndRecordsAll ==
  (impl = "guid" /\ lastBuild.built /\ ~lastBuild.indexFailed) =>
    /\ BuildPaginates
    /\ \A t \in KeptIdentifiers :
         GuidProvider(t[3]) \in Providers =>
           Recorded(guidIndex, GuidProvider(t[3]), GuidId(t[3]))


\* C35: however the resolutions of a chunk interleave, at most one
\* enumeration of the library for the index is begun in a checkBatch call and
\* itemCount never exceeds the number of items of the kept sections (it is
\* that number once an index built without failure is in place)
C35_IndexEnumeratedOnce ==
  (batch.pc # "idle") =>
    /\ batch.builds <= 1
    /\ guidIndex.itemCount <= CountItems(KeptSections)
    /\ (guidIndex.loaded /\ ~lastBuild.indexFailed) =>
         (guidIndex.itemCount = CountItems(KeptSections))

\* C35 witness: two resolutions of a chunk were in flight together, one has
\* completed, and the index of a library with items has been built once
C35_Witness ==
  /\ batch.pc = "await"
  /\ batch.concurrency = 2
  /\ Cardinality(batch.inFlight) = 1
  /\ Cardinality(DOMAIN batch.settled) = 1
  /\ batch.builds = 1
  /\ guidIndex.loaded
  /\ guidIndex.itemCount = CountItems(KeptSections)
  /\ guidIndex.itemCount > 0


C37_LegacyTautulliMatchIsIdVerified ==
  (impl = "legacy" /\ lastCheck.valid /\ lastCheck.by = "tautulli") =>
    /\ lastCheck.e.provider # NoProvider
    /\ lastCheck.e.id # NoString
    /\ \E full \in Range(ServerMetadata(plex, lastCheck.tautKey)) :
         /\ isIdMatch(full, lastCheck.e.provider, lastCheck.e.id)
         /\ lastCheck.res.plexTitle = full.title

\* C37 witness: the legacy Tautulli tier resolved an entry that carries an id
C37_Witness ==
  /\ impl = "legacy"
  /\ lastCheck.valid
  /\ lastCheck.by = "tautulli"
  /\ lastCheck.res.found
  /\ lastCheck.e.id # NoString
  /\ lastCheck.tautKey # 0

\* an entry without an id went through the legacy Tautulli tier, whose search
\* by title had a candidate with the entry's title, and was not resolved by it
LegacyTitleCandidateRefused ==
  /\ impl = "legacy"
  /\ lastCheck.valid
  /\ lastCheck.e.id = NoString
  /\ lastCheck.by # "tautulli"
  /\ \E i \in 1..Len(lastCheck.tautCalls) :
       /\ lastCheck.tautCalls[i][2] = "title"
       /\ \E row \in Range(TautulliRows(plex, lastCheck.tautCalls[i][1], lastCheck.e.title)) :
            row.title = lastCheck.e.title


\* C38: after every step, every tracked entry with status added has an
\* addedAt (the loaded entries have one); a step gives
\* an entry an addedAt only by creating it as added or by turning it from
\* pending to added, the value being the cycle's `now`, and every other step
\* leaves the addedAt of the entries it keeps as it was
C38_AddedAtFollowsStatus ==
  [][ \A j \in 1..Len(entries') :
        /\ (entries'[j].status = "added") => (entries'[j].addedAt # NoTime)
        /\ IF \E i \in 1..Len(entries) : entries[i].uid = entries'[j].uid
             THEN \A i \in 1..Len(entries) :
                    (entries[i].uid = entries'[j].uid
                     /\ entries'[j].addedAt # entries[i].addedAt) =>
                       (/\ entries[i].status = "pending"
                        /\ entries'[j].status = "added"
                        /\ entries'[j].addedAt = now)
           ELSE /\ (entries'[j].status = "added") <=> (entries'[j].addedAt = now)
                /\ (entries'[j].status # "added") <=> (entries'[j].addedAt = NoTime) ]_vars

\* C38 witness: the last turn of the loop turned a pending entry to added
\* with the cycle's time, next to an entry added earlier that was found
\* again and keeps its earlier time
C38_Witness ==
  /\ pc = "loop"
  /\ lastItem.valid /\ lastItem.before = "pending" /\ lastItem.found
  /\ \E i \in 1..Len(entries) :
       /\ entries[i].uid = lastItem.uid
       /\ entries[i].status = "added"
       /\ entries[i].addedAt = now
  /\ \E i \in 1..Len(entries) :
       /\ entries[i].status = "added"
       /\ entries[i].addedAt # NoTime /\ entries[i].addedAt < now
       /\ \E k \in 1..pos : SelectsEntry(entries[i], allItems[k])


\* C39: a step leaves every tracked entry that no item of the cycle's
\* watchlist selects as it is, with its title, year, type,
\* provider, id, status and addedAt; only the cleanup may remove it
C39_UnlistedEntryIsLeftAlone ==
  [][ \A i \in 1..Len(entries) :
        (~MatchesSomeItem(allItems, entries[i])) =>
           \/ (\E j \in 1..Len(entries') : entries'[j] = entries[i])
           \/ (pc = "loop" /\ pc' = "notifyAdded"
               /\ \A j \in 1..Len(entries') : entries'[j].uid # entries[i].uid) ]_vars

\* C39 witness: the loop has gone through a watchlist, an entry of the state
\* file was changed by it, and an entry of the state file that no item
\* selects is still what the state file holds
C39_Witness ==
  /\ pc = "loop"
  /\ pos = Len(allItems)
  /\ pos > 0
  /\ \E i \in 1..Len(entries) :
       /\ i <= Len(stateFile)
       /\ stateFile[i].uid = entries[i].uid
       /\ stateFile[i] # entries[i]
  /\ \E i \in 1..Len(entries) :
       /\ ~MatchesSomeItem(allItems, entries[i])
       /\ i <= Len(stateFile)
       /\ stateFile[i] = entries[i]

====
